---------------------------- MODULE Spec2Model ----------------------------
(***************************************************************************)
(* The session-backed authentication layer of QuizMaker: the users and     *)
(* sessions tables, the signed token, the session library                  *)
(* (lib/auth/session.ts) and the api/auth route handlers.  Every datastore *)
(* statement is one atomic step; a handler that issues several statements  *)
(* is a process that other requests interleave with.                       *)
(*                                                                         *)
(* Time is counted in instants; SessionTTL of them are the 7 days a        *)
(* session and a token last.                                               *)
(***************************************************************************)
EXTENDS Integers, Sequences, FiniteSets, TLC

\* The bounds of the explored universe: the latest instant, and the number of
\* user rows and of session rows.
MaxNow == 3

MaxUsers == 2

MaxSessions == 3

MaxProcs == 2

\* A behaviour stays inside one corner of that universe: many sessions of
\* one user, several users, or passing time, with one handler at a time.
Scopes ==
    { [users |-> 1, sessions |-> MaxSessions, horizon |-> 0, procs |-> 1],
      [users |-> MaxUsers, sessions |-> MaxSessions - 1, horizon |-> 0, procs |-> 1],
      [users |-> 1, sessions |-> MaxSessions - 1, horizon |-> MaxNow, procs |-> 1] }

\* The corner of handlers that run concurrently.
ConcurrentScope ==
    [users |-> MaxUsers, sessions |-> MaxSessions - 1, horizon |-> 0, procs |-> MaxProcs]

\* Instants are the points of a grid with SessionTTL instants to each
\* calendar date, and consecutive dates seven days apart: a session or a token
\* lasts from an instant to the same time of day on the next date.
SessionTTL == 2

TokenTTL == 2

\* The instants the clock is read at: the first one, and those from the first
\* expiry on, so that the last two fall on one calendar date.
Instants == {t \in 0..MaxNow : t = 0 \/ t >= SessionTTL}

\* The ids crypto.randomUUID() draws.  Ids are opaque and only compared for
\* equality, so the n-th id drawn for a table is named by n.
UserIdSeq == <<"u1", "u2", "u3">>

SessionIdSeq == <<"s1", "s2", "s3", "s4">>

UserIds == {UserIdSeq[i] : i \in 1..MaxUsers}

SessionIds == {SessionIdSeq[i] : i \in 1..MaxSessions}

\* A fresh id: rows are never deleted, so the ids drawn so far are the keys.
randomUUID(idSeq, table) == idSeq[Cardinality(DOMAIN table) + 1]

\* The requests that can be in flight together.
ProcSeq == <<"p1", "p2", "p3">>

Procs == {ProcSeq[i] : i \in 1..MaxProcs}

\* Strings the code inspects character by character are tuples of characters.
EmA == <<"a", "@", "x", ".", "c">>
EmAUpper == <<"A", "@", "x", ".", "c">>
EmB == <<"b", "@", "x", ".", "c">>
EmBad == <<"a", "x">>
Empty == <<>>

InputEmails == {EmA, EmAUpper, EmB, EmBad, Empty}

PwOne == <<"P", "a", "s", "s", "w", "o", "r", "d", "1">>
PwTwo == <<"S", "e", "c", "r", "e", "t", "9", "9">>
PwWeak == <<"a", "b", "c">>

\* The passwords offered at signup and at login.
SignupPasswords == {PwOne, PwWeak, Empty}

LoginPasswords == {PwOne, PwTwo, Empty}

InputNames == {<<"T">>, Empty}

UpperCase == {"A", "B", "P", "S", "T"}
LowerCase == {"a", "b", "c", "d", "e", "o", "p", "r", "s", "t", "w", "x"}
Digits == {"1", "9"}
WhiteSpace == {" "}

LowerOf == ("A" :> "a") @@ ("B" :> "b") @@ ("P" :> "p") @@ ("S" :> "s") @@ ("T" :> "t")

toLowerCase(s) == [i \in 1..Len(s) |-> IF s[i] \in UpperCase THEN LowerOf[s[i]] ELSE s[i]]

\* /^[^\s@]+@[^\s@]+\.[^\s@]+$/
emailRegexTest(s) ==
    /\ \A i \in 1..Len(s) : s[i] \notin WhiteSpace
    /\ Cardinality({i \in 1..Len(s) : s[i] = "@"}) = 1
    /\ \E i \in 1..Len(s) :
          /\ s[i] = "@"
          /\ i > 1
          /\ \E j \in (i + 2)..(Len(s) - 1) : s[j] = "."

-----------------------------------------------------------------------------
(* lib/auth/password.ts *)

\* A strength check whose minimum length is 6.
validatePasswordStrengthSix(password) ==
    LET errors ==
          (IF Len(password) < 6 THEN <<"length">> ELSE <<>>)
          \o (IF \A i \in 1..Len(password) : password[i] \notin UpperCase
              THEN <<"uppercase">> ELSE <<>>)
          \o (IF \A i \in 1..Len(password) : password[i] \notin LowerCase
              THEN <<"lowercase">> ELSE <<>>)
          \o (IF \A i \in 1..Len(password) : password[i] \notin Digits
              THEN <<"number">> ELSE <<>>)
    IN  [valid |-> errors = <<>>, errors |-> errors]

validatePasswordStrength(password) ==
    LET errors ==
          (IF Len(password) < 8 THEN <<"length">> ELSE <<>>)
          \o (IF \A i \in 1..Len(password) : password[i] \notin UpperCase
              THEN <<"uppercase">> ELSE <<>>)
          \o (IF \A i \in 1..Len(password) : password[i] \notin LowerCase
              THEN <<"lowercase">> ELSE <<>>)
          \o (IF \A i \in 1..Len(password) : password[i] \notin Digits
              THEN <<"number">> ELSE <<>>)
    IN  [valid |-> errors = <<>>, errors |-> errors]

\* bcrypt: the hash embeds a salt and is verified by recomputation.
hashPassword(password, salt) == <<"bcrypt", salt, password>>

verifyPassword(password, hash) == hash[3] = password

-----------------------------------------------------------------------------
(* Timestamps.  A stored timestamp is text in one of two formats: the ISO   *)
(* string of Date.toISOString() or the text of SQL's CURRENT_TIMESTAMP.     *)

IsoString(t) == <<"iso", t>>

CurrentTimestamp(t) == <<"sql", t>>

Undefined == <<"undefined", 0>>

\* JavaScript's obj.name: undefined when the object has no such property.
Property(obj, name) == IF name \in DOMAIN obj THEN obj[name] ELSE Undefined

\* new Date(v): an Invalid Date (time value NaN) when v is undefined.
NewDate(v) == IF v[1] = "undefined" THEN <<"invalid", 0>> ELSE <<"valid", v[2]>>

\* a > b on Dates: every comparison with NaN is false.
DateGreater(a, b) == a[1] = "valid" /\ b[1] = "valid" /\ a[2] > b[2]

\* The calendar date a timestamp text starts with (YYYY-MM-DD).
DateOf(t) == t \div SessionTTL

\* a < b on two timestamp texts, as SQLite compares TEXT: byte by byte.  The
\* date parts decide; on the same date the eleventh character does when the
\* formats differ, and the "T" of an ISO string sorts after the " " of SQL
\* text; two texts of one format compare as their instants do.
TextLess(a, b) ==
    IF DateOf(a[2]) # DateOf(b[2]) THEN DateOf(a[2]) < DateOf(b[2])
    ELSE IF a[1] = b[1] THEN a[2] < b[2]
    ELSE a[1] = "sql" /\ b[1] = "iso"

-----------------------------------------------------------------------------
(* lib/auth/jwt.ts *)

NoCookie == [kind |-> "none"]

Garbage == [kind |-> "garbage"]

\* HS256 over the claims with the process-wide secret.
Sign(sessionId, userId, email, iat, exp) == <<"HS256", sessionId, userId, email, iat, exp>>

createToken(sessionId, userId, email, t) ==
    [kind |-> "jwt", sessionId |-> sessionId, userId |-> userId, email |-> email,
     iat |-> t, exp |-> t + TokenTTL,
     mac |-> Sign(sessionId, userId, email, t, t + TokenTTL)]

\* A verification that reads the payload without checking the signature.
verifyTokenUnsigned(token, t) ==
    /\ token.kind = "jwt"
    /\ token.exp > t

\* jwtVerify: the signature matches and the token is not past exp.
verifyToken(token, t) ==
    /\ token.kind = "jwt"
    /\ token.mac = Sign(token.sessionId, token.userId, token.email, token.iat, token.exp)
    /\ token.exp > t

\* What jose's jwtVerify raises: a token that is no JWS at all, a signature
\* that does not match, and a token past exp are three different errors,
\* tested in that order.
jwtVerify(token, t) ==
    IF token.kind # "jwt" THEN "JWSInvalid"
    ELSE IF token.mac # Sign(token.sessionId, token.userId, token.email,
                             token.iat, token.exp)
    THEN "JWSSignatureVerificationFailed"
    ELSE IF ~(token.exp > t) THEN "JWTExpired"
    ELSE "none"

\* A verifyToken that lets jwtVerify's error through to the caller.
verifyTokenErrorRethrown(token, t) == jwtVerify(token, t)

\* The message of the Error verifyToken throws: its catch replaces whatever
\* jwtVerify raised.
verifyTokenError(token, t) ==
    IF jwtVerify(token, t) = "none" THEN "none" ELSE "Invalid or expired token"

-----------------------------------------------------------------------------
(* The state *)

VARIABLES
    users,      \* the users table: id -> row
    sessions,   \* the sessions table: id -> row
    issued,     \* the tokens handed to clients in the auth-token cookie
    now,        \* the clock
    scope,      \* the corner of the universe this behaviour explores
    req,        \* per process: the request in flight and its local variables
    last        \* the response on its way to the client, if any

vars == <<users, sessions, issued, now, scope, req, last>>

Null == <<"null", 0>>

Unchanged == [kind |-> "unchanged"]

Deleted == [kind |-> "deleted"]

IdleReq ==
    [pc |-> "idle", op |-> "", email |-> Empty, password |-> Empty,
     fullName |-> Empty, uid |-> "", sid |-> "", expired |-> FALSE]

\* A response: the operation, the session id and the user id the handler
\* worked on (from a verified token, the body or the arguments), the path
\* a page request asked for, and what was returned.
NoResp ==
    [op |-> "", sid |-> "", uid |-> "", status |-> 0, error |-> "", details |-> <<>>,
     cookieOut |-> Unchanged, user |-> <<>>, result |-> "", list |-> <<>>,
     location |-> <<>>, path |-> <<>>]

\* The session id and the user id a handler takes from the cookie: the
\* claims of the token, when it verifies.
CookieSid(cookie) == IF verifyToken(cookie, now) THEN cookie.sessionId ELSE ""

CookieUid(cookie) == IF verifyToken(cookie, now) THEN cookie.userId ELSE ""

\* A token whose payload was altered after it was signed.
Tampered(t) == {[t EXCEPT !.userId = u] : u \in UserIds \ {t.userId}}

\* The session ids a caller can name: those of the behaviour's corner.
SessionIdInputs == {SessionIdSeq[i] : i \in 1..scope.sessions}

\* What a client can send as its auth-token cookie.
Cookies == {NoCookie, Garbage} \cup issued \cup UNION {Tampered(t) : t \in issued}

Init ==
    /\ users = <<>>
    /\ sessions = <<>>
    /\ issued = {}
    /\ now = 0
    /\ scope \in Scopes
    /\ req = [p \in Procs |-> IdleReq]
    /\ last = NoResp

-----------------------------------------------------------------------------
(* lib/auth/session.ts: the statements *)

\* An insert that stores the session as inactive.
createSessionInactive(ss, sessionId, userId, t) ==
    ss @@ (sessionId :>
             [id |-> sessionId, user_id |-> userId,
              expires_at |-> IsoString(t + SessionTTL),
              last_active_at |-> IsoString(t), is_active |-> 0])

\* INSERT INTO sessions (...): is_active takes its default, 1.
createSession(ss, sessionId, userId, t) ==
    ss @@ (sessionId :>
             [id |-> sessionId, user_id |-> userId,
              expires_at |-> IsoString(t + SessionTTL),
              last_active_at |-> IsoString(t), is_active |-> 1])

\* SELECT * FROM sessions WHERE id = ? AND is_active = 1: the row, or none.
getSession(ss, sessionId) ==
    IF sessionId \in DOMAIN ss /\ ss[sessionId].is_active = 1
    THEN <<ss[sessionId]>> ELSE <<>>

\* validateSession's expiry test: now > new Date(session.expiresAt), on the
\* row object as the datastore returns it (its properties are the columns).
isExpired(session, t) ==
    DateGreater(<<"valid", t>>, NewDate(Property(session, "expiresAt")))

\* A touch that writes the whole row back as validateSession read it.
touchSessionWritesRowBack(ss, sessionId, t) ==
    [s \in DOMAIN ss |->
        IF s = sessionId
        THEN [ss[s] EXCEPT !.last_active_at = CurrentTimestamp(t), !.is_active = 1]
        ELSE ss[s]]

\* A touch without the WHERE clause.
touchSessionEveryRow(ss, sessionId, t) ==
    [s \in DOMAIN ss |-> [ss[s] EXCEPT !.last_active_at = CurrentTimestamp(t)]]

\* A touch that only the first caller wins: a row touched before keeps its
\* last_active_at.
touchSessionFirstWriterWins(ss, sessionId, t) ==
    [s \in DOMAIN ss |->
        IF s = sessionId /\ ss[s].last_active_at[1] = "iso"
        THEN [ss[s] EXCEPT !.last_active_at = CurrentTimestamp(t)] ELSE ss[s]]

\* UPDATE sessions SET last_active_at = CURRENT_TIMESTAMP WHERE id = ?
touchSession(ss, sessionId, t) ==
    [s \in DOMAIN ss |->
        IF s = sessionId THEN [ss[s] EXCEPT !.last_active_at = CurrentTimestamp(t)]
        ELSE ss[s]]

\* A revoke that flips the flag.
revokeSessionToggles(ss, sessionId) ==
    [s \in DOMAIN ss |->
        IF s = sessionId THEN [ss[s] EXCEPT !.is_active = 1 - ss[s].is_active] ELSE ss[s]]

\* A revoke that ends every session of the session's user.
revokeSessionOfSameUser(ss, sessionId) ==
    [s \in DOMAIN ss |->
        IF sessionId \in DOMAIN ss /\ ss[s].user_id = ss[sessionId].user_id
        THEN [ss[s] EXCEPT !.is_active = 0] ELSE ss[s]]

\* A revoke that deletes the row.
revokeSessionDeletesRow(ss, sessionId) ==
    [s \in DOMAIN ss \ {sessionId} |-> ss[s]]

\* UPDATE sessions SET is_active = 0 WHERE id = ?
revokeSession(ss, sessionId) ==
    [s \in DOMAIN ss |->
        IF s = sessionId THEN [ss[s] EXCEPT !.is_active = 0] ELSE ss[s]]

\* A revoke-all whose WHERE clause names the id column.
revokeAllUserSessionsById(ss, userId) ==
    [s \in DOMAIN ss |->
        IF ss[s].id = userId THEN [ss[s] EXCEPT !.is_active = 0] ELSE ss[s]]

\* A revoke-all without the WHERE clause.
revokeAllUserSessionsOfEveryone(ss, userId) ==
    [s \in DOMAIN ss |-> [ss[s] EXCEPT !.is_active = 0]]

\* UPDATE sessions SET is_active = 0 WHERE user_id = ?
revokeAllUserSessions(ss, userId) ==
    [s \in DOMAIN ss |->
        IF ss[s].user_id = userId THEN [ss[s] EXCEPT !.is_active = 0] ELSE ss[s]]

\* A listing without the user_id condition.
getUserSessionsOfAnyUser(ss, userId) == {s \in DOMAIN ss : ss[s].is_active = 1}

\* A listing without the is_active condition.
getUserSessionsWithRevoked(ss, userId) ==
    {s \in DOMAIN ss : ss[s].user_id = userId}

\* SELECT * FROM sessions WHERE user_id = ? AND is_active = 1
getUserSessions(ss, userId) ==
    {s \in DOMAIN ss : ss[s].user_id = userId /\ ss[s].is_active = 1}

\* The arrangements of a set of rows in a result.
Orderings(ids) ==
    {f \in [1..Cardinality(ids) -> ids] :
        \A i, j \in 1..Cardinality(ids) : i # j => f[i] # f[j]}

\* ... ORDER BY last_active_at DESC: the results the datastore can return
\* for the selected rows; rows whose values do not differ come in any order.
orderByLastActiveDesc(ss, ids) ==
    {f \in Orderings(ids) :
        \A i, j \in DOMAIN f :
            i < j => ~TextLess(ss[f[i]].last_active_at, ss[f[j]].last_active_at)}

\* UPDATE sessions SET is_active = 0
\*   WHERE expires_at < CURRENT_TIMESTAMP AND is_active = 1
cleanupExpired(ss, t) ==
    [s \in DOMAIN ss |->
        IF TextLess(ss[s].expires_at, CurrentTimestamp(t)) /\ ss[s].is_active = 1
        THEN [ss[s] EXCEPT !.is_active = 0] ELSE ss[s]]

\* SELECT ... FROM users WHERE email = ?: the row, or none.
userByEmail(us, email) ==
    IF \E u \in DOMAIN us : us[u].email = email
    THEN <<us[CHOOSE u \in DOMAIN us : us[u].email = email]>> ELSE <<>>

-----------------------------------------------------------------------------
(* Requests.  dbOk says whether the step's datastore call succeeds: when it *)
(* is FALSE, getDatabase() or the statement throws.                         *)

\* The handlers that run in the behaviour's corner.
Handlers == {ProcSeq[i] : i \in 1..scope.procs}

Idle(p) == p \in Handlers /\ req[p].pc = "idle"

Finish(p, response) ==
    /\ req' = [req EXCEPT ![p] = IdleReq]
    /\ last' = response

\* Requests in flight that will still insert a session row, or a user row.
\* The id spaces of the model are finite: a request that needs a fresh id
\* starts only when one is left for it.
PendingSessions ==
    Cardinality({p \in Procs : req[p].pc \in
        {"login_update", "login_session", "signup_insert", "signup_session"}})

PendingUsers == Cardinality({p \in Procs : req[p].pc = "signup_insert"})

SessionIdLeft == Cardinality(DOMAIN sessions) + PendingSessions < scope.sessions

UserIdLeft == Cardinality(DOMAIN users) + PendingUsers < scope.users

InternalError(r) == [r EXCEPT !.status = 500, !.error = "Internal server error"]

-----------------------------------------------------------------------------
(* The environment *)

\* The client receives the response.
Deliver ==
    /\ last # NoResp
    /\ last' = NoResp
    /\ UNCHANGED <<users, sessions, issued, now, scope, req>>

\* Time passes: the clock moves to the next instant it is read at.
Tick ==
    /\ \E t \in Instants :
          /\ now < t
          /\ t <= scope.horizon
          /\ \A u \in Instants : now < u => t <= u
          /\ now' = t
    /\ UNCHANGED <<users, sessions, issued, scope, req, last>>

\* users.is_active (0 = inactive, 1 = active) is set by administration.
AdminSetUserActive(u, flag) ==
    /\ u \in DOMAIN users
    /\ users[u].is_active # flag
    /\ users' = [users EXCEPT ![u].is_active = flag]
    /\ UNCHANGED <<sessions, issued, now, scope, req, last>>

-----------------------------------------------------------------------------
(* lib/auth/session.ts called directly *)

\* validateSession, first statement: getSession, then the expiry test.
CallValidateSession(p, sessionId, dbOk) ==
    /\ Idle(p)
    /\ LET r == [NoResp EXCEPT !.op = "validateSession", !.sid = sessionId]
           found == getSession(sessions, sessionId)
       IN  IF ~dbOk
           THEN Finish(p, [r EXCEPT !.result = "throw"])
           ELSE IF found = <<>>
           THEN Finish(p, [r EXCEPT !.result = "false"])
           ELSE /\ req' = [req EXCEPT ![p] =
                       [IdleReq EXCEPT !.pc = "validate_write", !.op = "validateSession",
                                       !.sid = sessionId,
                                       !.expired = isExpired(found[1], now)]]
                /\ last' = NoResp
    /\ UNCHANGED <<users, sessions, issued, now, scope>>

\* validateSession, second statement: revoke when expired, else touch.
\* Shared by the direct call and by GET /me.
ValidateWrite(p, dbOk) ==
    /\ req[p].pc = "validate_write"
    /\ LET me == req[p].op = "me"
           r == [NoResp EXCEPT !.op = req[p].op, !.sid = req[p].sid,
                               !.uid = req[p].uid]
       IN  IF ~dbOk
           THEN /\ sessions' = sessions
                /\ Finish(p, IF me
                             THEN [r EXCEPT !.status = 401,
                                            !.error = "Invalid or expired token"]
                             ELSE [r EXCEPT !.result = "throw"])
           ELSE IF req[p].expired
           THEN /\ sessions' = revokeSession(sessions, req[p].sid)
                /\ Finish(p, IF me
                             THEN [r EXCEPT !.status = 401,
                                            !.error = "Session invalid or expired",
                                            !.cookieOut = Deleted]
                             ELSE [r EXCEPT !.result = "false"])
           ELSE /\ sessions' = touchSession(sessions, req[p].sid, now)
                /\ IF me
                   THEN /\ req' = [req EXCEPT ![p].pc = "me_user"]
                        /\ last' = last
                   ELSE Finish(p, [r EXCEPT !.result = "true"])
    /\ UNCHANGED <<users, issued, now, scope>>

CallRevokeSession(sessionId, dbOk) ==
    /\ LET r == [NoResp EXCEPT !.op = "revokeSession", !.sid = sessionId]
       IN  IF dbOk
           THEN /\ sessions' = revokeSession(sessions, sessionId)
                /\ last' = [r EXCEPT !.result = "void"]
           ELSE /\ sessions' = sessions
                /\ last' = [r EXCEPT !.result = "throw"]
    /\ UNCHANGED <<users, issued, now, scope, req>>

cleanupExpiredSessions(dbOk) ==
    /\ LET r == [NoResp EXCEPT !.op = "cleanupExpiredSessions"]
       IN  IF dbOk
           THEN /\ sessions' = cleanupExpired(sessions, now)
                /\ last' = [r EXCEPT !.result = "0"]
           ELSE /\ sessions' = sessions
                /\ last' = [r EXCEPT !.result = "throw"]
    /\ UNCHANGED <<users, issued, now, scope, req>>

-----------------------------------------------------------------------------
(* api/auth/me *)

\* GET /me up to validateSession's first statement.
MeGET(p, cookie, dbOk) ==
    /\ Idle(p)
    /\ LET r == [NoResp EXCEPT !.op = "me", !.sid = CookieSid(cookie),
                               !.uid = CookieUid(cookie)]
       IN  IF cookie = NoCookie
           THEN Finish(p, [r EXCEPT !.status = 401, !.error = "Not authenticated"])
           ELSE IF ~verifyToken(cookie, now) \/ ~dbOk
           THEN Finish(p, [r EXCEPT !.status = 401,
                                    !.error = "Invalid or expired token"])
           ELSE LET found == getSession(sessions, cookie.sessionId)
                IN  IF found = <<>>
                    THEN Finish(p, [r EXCEPT !.status = 401,
                                             !.error = "Session invalid or expired",
                                             !.cookieOut = Deleted])
                    ELSE /\ req' = [req EXCEPT ![p] =
                                [IdleReq EXCEPT !.pc = "validate_write", !.op = "me",
                                                !.uid = cookie.userId,
                                                !.sid = cookie.sessionId,
                                                !.expired = isExpired(found[1], now)]]
                         /\ last' = NoResp
    /\ UNCHANGED <<users, sessions, issued, now, scope>>

\* GET /me after validateSession returned true: the user row, read fresh.
MeUser(p, dbOk) ==
    /\ req[p].pc = "me_user"
    /\ LET r == [NoResp EXCEPT !.op = "me", !.sid = req[p].sid, !.uid = req[p].uid]
           userId == req[p].uid
       IN  IF ~dbOk
           THEN Finish(p, [r EXCEPT !.status = 401,
                                    !.error = "Invalid or expired token"])
           ELSE IF userId \notin DOMAIN users \/ users[userId].is_active = 0
           THEN Finish(p, [r EXCEPT !.status = 404,
                                    !.error = "User not found or inactive"])
           ELSE Finish(p, [r EXCEPT !.status = 200,
                                    !.user = <<users[userId].id, users[userId].email,
                                               users[userId].full_name>>])
    /\ UNCHANGED <<users, sessions, issued, now, scope>>

-----------------------------------------------------------------------------
(* api/auth/logout and api/auth/logout-all *)

\* A logout that rejects a token it cannot verify.
LogoutPOSTRequiresToken(cookie, dbOk) ==
    /\ sessions' = IF verifyToken(cookie, now) /\ dbOk
                   THEN revokeSession(sessions, cookie.sessionId)
                   ELSE sessions
    /\ last' = IF verifyToken(cookie, now)
               THEN [NoResp EXCEPT !.op = "logout", !.sid = cookie.sessionId,
                                   !.uid = cookie.userId, !.status = 200,
                                   !.cookieOut = Deleted]
               ELSE [NoResp EXCEPT !.op = "logout", !.status = 401,
                                   !.error = "Not authenticated"]
    /\ UNCHANGED <<users, issued, now, scope, req>>

LogoutPOST(cookie, dbOk) ==
    /\ sessions' = IF cookie # NoCookie /\ verifyToken(cookie, now) /\ dbOk
                   THEN revokeSession(sessions, cookie.sessionId)
                   ELSE sessions
    /\ last' = [NoResp EXCEPT !.op = "logout", !.sid = CookieSid(cookie),
                                      !.uid = CookieUid(cookie), !.status = 200,
                                      !.cookieOut = Deleted]
    /\ UNCHANGED <<users, issued, now, scope, req>>

\* A logout-all that also ends the logins of the user that are in flight.
LogoutAllPOSTCancelsLogins(cookie, dbOk) ==
    /\ LET r == [NoResp EXCEPT !.op = "logout-all", !.sid = CookieSid(cookie),
                               !.uid = CookieUid(cookie)]
       IN  IF cookie = NoCookie
           THEN /\ sessions' = sessions
                /\ req' = req
                /\ last' = [r EXCEPT !.status = 401, !.error = "Not authenticated"]
           ELSE IF ~verifyToken(cookie, now) \/ ~dbOk
           THEN /\ sessions' = sessions
                /\ req' = req
                /\ last' = InternalError(r)
           ELSE /\ sessions' = revokeAllUserSessions(sessions, cookie.userId)
                /\ req' = [p \in DOMAIN req |->
                              IF req[p].op = "login" /\ req[p].uid = cookie.userId
                              THEN IdleReq ELSE req[p]]
                /\ last' = [r EXCEPT !.status = 200, !.cookieOut = Deleted]
    /\ UNCHANGED <<users, issued, now, scope>>

\* POST /logout-all: verifyToken, then revokeAllUserSessions in one UPDATE.
LogoutAllPOST(cookie, dbOk) ==
    /\ LET r == [NoResp EXCEPT !.op = "logout-all", !.sid = CookieSid(cookie),
                               !.uid = CookieUid(cookie)]
       IN  IF cookie = NoCookie
           THEN /\ sessions' = sessions
                /\ last' = [r EXCEPT !.status = 401, !.error = "Not authenticated"]
           ELSE IF ~verifyToken(cookie, now) \/ ~dbOk
           THEN /\ sessions' = sessions
                /\ last' = InternalError(r)
           ELSE /\ sessions' = revokeAllUserSessions(sessions, cookie.userId)
                /\ last' = [r EXCEPT !.status = 200, !.cookieOut = Deleted]
    /\ UNCHANGED <<users, issued, now, scope, req>>

-----------------------------------------------------------------------------
(* api/auth/sessions *)

\* sessions.map(...): what the response says of each listed session.
formattedSessions(rows, currentSessionId) ==
    [i \in DOMAIN rows |-> [id |-> rows[i], isCurrent |-> rows[i] = currentSessionId]]

\* A listing that touches the caller's session as validateSession does.
SessionsGETTouches(cookie, dbOk) ==
    /\ LET r == [NoResp EXCEPT !.op = "sessions-get", !.sid = CookieSid(cookie),
                               !.uid = CookieUid(cookie)]
       IN  IF cookie = NoCookie
           THEN /\ sessions' = sessions
                /\ last' = [r EXCEPT !.status = 401, !.error = "Not authenticated"]
           ELSE IF ~verifyToken(cookie, now) \/ ~dbOk
           THEN /\ sessions' = sessions
                /\ last' = InternalError(r)
           ELSE /\ sessions' = touchSession(sessions, cookie.sessionId, now)
                /\ \E rows \in orderByLastActiveDesc(sessions,
                                   getUserSessions(sessions, cookie.userId)) :
                       last' = [r EXCEPT !.status = 200,
                                         !.list = formattedSessions(rows, cookie.sessionId)]
    /\ UNCHANGED <<users, issued, now, scope, req>>

\* GET /sessions
SessionsGET(cookie, dbOk) ==
    /\ LET r == [NoResp EXCEPT !.op = "sessions-get", !.sid = CookieSid(cookie),
                               !.uid = CookieUid(cookie)]
       IN  IF cookie = NoCookie
           THEN last' = [r EXCEPT !.status = 401, !.error = "Not authenticated"]
           ELSE IF ~verifyToken(cookie, now) \/ ~dbOk
           THEN last' = InternalError(r)
           ELSE \E rows \in orderByLastActiveDesc(sessions,
                                getUserSessions(sessions, cookie.userId)) :
                    last' = [r EXCEPT !.status = 200,
                                      !.list = formattedSessions(rows, cookie.sessionId)]
    /\ UNCHANGED <<users, sessions, issued, now, scope, req>>

\* DELETE /sessions up to the ownership check.
SessionsDELETE(p, cookie, sessionId, dbOk) ==
    /\ Idle(p)
    /\ LET r == [NoResp EXCEPT !.op = "sessions-delete",
                               !.sid = IF verifyToken(cookie, now) THEN sessionId ELSE "",
                               !.uid = CookieUid(cookie)]
       IN  IF cookie = NoCookie
           THEN Finish(p, [r EXCEPT !.status = 401, !.error = "Not authenticated"])
           ELSE IF ~verifyToken(cookie, now)
           THEN Finish(p, InternalError(r))
           ELSE IF sessionId = ""
           THEN Finish(p, [r EXCEPT !.status = 400, !.error = "Session ID required"])
           ELSE IF ~dbOk
           THEN Finish(p, InternalError(r))
           ELSE IF sessionId \notin getUserSessions(sessions, cookie.userId)
           THEN Finish(p, [r EXCEPT !.status = 404, !.error = "Session not found"])
           ELSE /\ req' = [req EXCEPT ![p] =
                       [IdleReq EXCEPT !.pc = "delete_revoke", !.op = "sessions-delete",
                                       !.uid = cookie.userId, !.sid = sessionId]]
                /\ last' = NoResp
    /\ UNCHANGED <<users, sessions, issued, now, scope>>

\* DELETE /sessions: the revoke statement and the response.
SessionsDELETERevoke(p, dbOk) ==
    /\ req[p].pc = "delete_revoke"
    /\ LET r == [NoResp EXCEPT !.op = "sessions-delete", !.sid = req[p].sid,
                               !.uid = req[p].uid]
       IN  IF ~dbOk
           THEN /\ sessions' = sessions
                /\ Finish(p, InternalError(r))
           ELSE /\ sessions' = revokeSession(sessions, req[p].sid)
                /\ Finish(p, [r EXCEPT !.status = 200])
    /\ UNCHANGED <<users, issued, now, scope>>

-----------------------------------------------------------------------------
(* api/auth/login *)

\* A login that tells the caller when the email is not registered.
loginCheckNamesUnknownEmail(us, email, password) ==
    IF email = Empty \/ password = Empty
    THEN [status |-> 400, error |-> "Email and password are required"]
    ELSE LET found == userByEmail(us, toLowerCase(email))
         IN  IF found = <<>>
             THEN [status |-> 404, error |-> "No account with this email"]
             ELSE IF found[1].is_active = 0
             THEN [status |-> 403, error |-> "Account is inactive"]
             ELSE IF ~verifyPassword(password, found[1].password_hash)
             THEN [status |-> 401, error |-> "Invalid email or password"]
             ELSE [status |-> 0, error |-> ""]

\* A login that verifies the password before it looks at is_active.
loginCheckPasswordFirst(us, email, password) ==
    IF email = Empty \/ password = Empty
    THEN [status |-> 400, error |-> "Email and password are required"]
    ELSE LET found == userByEmail(us, toLowerCase(email))
         IN  IF found = <<>>
             THEN [status |-> 401, error |-> "Invalid email or password"]
             ELSE IF ~verifyPassword(password, found[1].password_hash)
             THEN [status |-> 401, error |-> "Invalid email or password"]
             ELSE IF found[1].is_active = 0
             THEN [status |-> 403, error |-> "Account is inactive"]
             ELSE [status |-> 0, error |-> ""]

\* The checks of POST /login in the order of the code: the status and the
\* error payload of the first one that fails, status 0 when all pass.
loginCheck(us, email, password) ==
    IF email = Empty \/ password = Empty
    THEN [status |-> 400, error |-> "Email and password are required"]
    ELSE LET found == userByEmail(us, toLowerCase(email))
         IN  IF found = <<>>
             THEN [status |-> 401, error |-> "Invalid email or password"]
             ELSE IF found[1].is_active = 0
             THEN [status |-> 403, error |-> "Account is inactive"]
             ELSE IF ~verifyPassword(password, found[1].password_hash)
             THEN [status |-> 401, error |-> "Invalid email or password"]
             ELSE [status |-> 0, error |-> ""]

\* A login that stamps last_login_at of the account it finds before it
\* checks the account and the password.
LoginPOSTStampsFirst(p, email, password, dbOk) ==
    /\ Idle(p)
    /\ SessionIdLeft
    /\ LET c == loginCheck(users, email, password)
           found == userByEmail(users, toLowerCase(email))
           r == [NoResp EXCEPT !.op = "login",
                               !.uid = IF found = <<>> THEN "" ELSE found[1].id]
       IN  /\ users' = IF c.status # 400 /\ dbOk /\ found # <<>>
                        THEN [users EXCEPT ![found[1].id].last_login_at =
                                               CurrentTimestamp(now)]
                        ELSE users
           /\ IF c.status = 400
              THEN Finish(p, [r EXCEPT !.status = 400, !.error = c.error])
              ELSE IF ~dbOk
              THEN Finish(p, InternalError(r))
              ELSE IF c.status # 0
              THEN Finish(p, [r EXCEPT !.status = c.status, !.error = c.error])
              ELSE /\ req' = [req EXCEPT ![p] =
                          [IdleReq EXCEPT !.pc = "login_update", !.op = "login",
                                          !.email = found[1].email,
                                          !.fullName = found[1].full_name,
                                          !.uid = found[1].id]]
                   /\ last' = NoResp
    /\ UNCHANGED <<sessions, issued, now, scope>>

\* POST /login up to the password check.  A response names the user the
\* email was found to belong to.
LoginPOST(p, email, password, dbOk) ==
    /\ Idle(p)
    /\ SessionIdLeft
    /\ LET c == loginCheck(users, email, password)
           found == userByEmail(users, toLowerCase(email))
           r == [NoResp EXCEPT !.op = "login",
                               !.uid = IF found = <<>> THEN "" ELSE found[1].id]
       IN  IF c.status = 400
           THEN Finish(p, [r EXCEPT !.status = 400, !.error = c.error])
           ELSE IF ~dbOk
           THEN Finish(p, InternalError(r))
           ELSE IF c.status # 0
           THEN Finish(p, [r EXCEPT !.status = c.status, !.error = c.error])
           ELSE /\ req' = [req EXCEPT ![p] =
                       [IdleReq EXCEPT !.pc = "login_update", !.op = "login",
                                       !.email = found[1].email,
                                       !.fullName = found[1].full_name,
                                       !.uid = found[1].id]]
                /\ last' = NoResp
    /\ UNCHANGED <<users, sessions, issued, now, scope>>

\* UPDATE users SET last_login_at = CURRENT_TIMESTAMP WHERE id = ?
LoginUpdate(p, dbOk) ==
    /\ req[p].pc = "login_update"
    /\ IF ~dbOk
       THEN /\ users' = users
            /\ Finish(p, InternalError([NoResp EXCEPT !.op = "login",
                                                      !.uid = req[p].uid]))
       ELSE /\ users' = [users EXCEPT ![req[p].uid].last_login_at = CurrentTimestamp(now)]
            /\ req' = [req EXCEPT ![p].pc = "login_session"]
            /\ last' = last
    /\ UNCHANGED <<sessions, issued, now, scope>>

\* A login that takes over an active session of the user when there is one.
LoginSessionReusesActive(p, dbOk) ==
    /\ req[p].pc = "login_session"
    /\ IF ~dbOk
       THEN /\ sessions' = sessions
            /\ Finish(p, InternalError([NoResp EXCEPT !.op = "login",
                                                      !.uid = req[p].uid]))
       ELSE LET active == getUserSessions(sessions, req[p].uid)
                sessionId == IF active = {} THEN randomUUID(SessionIdSeq, sessions)
                             ELSE CHOOSE s \in active : TRUE
            IN  /\ sessions' = IF active = {}
                               THEN createSession(sessions, sessionId, req[p].uid, now)
                               ELSE touchSession(sessions, sessionId, now)
                /\ req' = [req EXCEPT ![p].pc = "login_token", ![p].sid = sessionId]
                /\ last' = last
    /\ UNCHANGED <<users, issued, now, scope>>

\* createSession: a fresh id from crypto.randomUUID(), then the INSERT.
LoginSession(p, dbOk) ==
    /\ req[p].pc = "login_session"
    /\ IF ~dbOk
       THEN /\ sessions' = sessions
            /\ Finish(p, InternalError([NoResp EXCEPT !.op = "login",
                                                      !.uid = req[p].uid]))
       ELSE LET sessionId == randomUUID(SessionIdSeq, sessions)
            IN  /\ sessions' = createSession(sessions, sessionId, req[p].uid, now)
                /\ req' = [req EXCEPT ![p].pc = "login_token", ![p].sid = sessionId]
                /\ last' = last
    /\ UNCHANGED <<users, issued, now, scope>>

\* createToken, the response and its cookie.
LoginToken(p) ==
    /\ req[p].pc = "login_token"
    /\ LET token == createToken(req[p].sid, req[p].uid, req[p].email, now)
       IN  /\ issued' = issued \cup {token}
           /\ Finish(p, [NoResp EXCEPT !.op = "login", !.sid = req[p].sid,
                                       !.uid = req[p].uid, !.status = 200,
                                       !.user = <<req[p].uid, req[p].email,
                                                  req[p].fullName>>,
                                       !.cookieOut = token])
    /\ UNCHANGED <<users, sessions, now, scope>>

-----------------------------------------------------------------------------
(* api/auth/signup *)

\* Input checks that look at the password before the email.
signupCheckPasswordFirst(email, password, fullName) ==
    IF email = Empty \/ password = Empty \/ fullName = Empty
    THEN [status |-> 400, error |-> "Missing required fields", details |-> <<>>]
    ELSE IF ~validatePasswordStrength(password).valid
    THEN [status |-> 400, error |-> "Password does not meet requirements",
          details |-> validatePasswordStrength(password).errors]
    ELSE IF ~emailRegexTest(email)
    THEN [status |-> 400, error |-> "Invalid email format", details |-> <<>>]
    ELSE [status |-> 0, error |-> "", details |-> <<>>]

\* The input checks of POST /signup in the order of the code.
signupCheck(email, password, fullName) ==
    IF email = Empty \/ password = Empty \/ fullName = Empty
    THEN [status |-> 400, error |-> "Missing required fields", details |-> <<>>]
    ELSE IF ~emailRegexTest(email)
    THEN [status |-> 400, error |-> "Invalid email format", details |-> <<>>]
    ELSE IF ~validatePasswordStrength(password).valid
    THEN [status |-> 400, error |-> "Password does not meet requirements",
          details |-> validatePasswordStrength(password).errors]
    ELSE [status |-> 0, error |-> "", details |-> <<>>]

\* POST /signup up to the check that the email is not registered.
SignupPOST(p, email, password, fullName, dbOk) ==
    /\ Idle(p)
    /\ SessionIdLeft
    /\ UserIdLeft
    /\ LET r == [NoResp EXCEPT !.op = "signup"]
           c == signupCheck(email, password, fullName)
       IN  IF c.status # 0
           THEN Finish(p, [r EXCEPT !.status = c.status, !.error = c.error,
                                    !.details = c.details])
           ELSE IF ~dbOk
           THEN Finish(p, InternalError(r))
           ELSE IF userByEmail(users, toLowerCase(email)) # <<>>
           THEN Finish(p, [r EXCEPT !.status = 409, !.error = "Email already registered"])
           ELSE /\ req' = [req EXCEPT ![p] =
                       [IdleReq EXCEPT !.pc = "signup_insert", !.op = "signup",
                                       !.email = email, !.password = password,
                                       !.fullName = fullName]]
                /\ last' = NoResp
    /\ UNCHANGED <<users, sessions, issued, now, scope>>

\* The insert into a users table whose email column is not UNIQUE.
SignupInsertNotUnique(p, dbOk) ==
    /\ req[p].pc = "signup_insert"
    /\ IF ~dbOk
       THEN /\ users' = users
            /\ Finish(p, InternalError([NoResp EXCEPT !.op = "signup"]))
       ELSE LET userId == randomUUID(UserIdSeq, users)
            IN  /\ users' = users @@ (userId :>
                       [id |-> userId, email |-> toLowerCase(req[p].email),
                        password_hash |-> hashPassword(req[p].password, userId),
                        full_name |-> req[p].fullName, is_active |-> 1,
                        last_login_at |-> Null])
                /\ req' = [req EXCEPT ![p].pc = "signup_session", ![p].uid = userId]
                /\ last' = last
    /\ UNCHANGED <<sessions, issued, now, scope>>

\* hashPassword, a fresh id, then INSERT INTO users: email is UNIQUE, and
\* is_active and last_login_at take their defaults.
SignupInsert(p, dbOk) ==
    /\ req[p].pc = "signup_insert"
    /\ IF ~dbOk \/ userByEmail(users, toLowerCase(req[p].email)) # <<>>
       THEN /\ users' = users
            /\ Finish(p, InternalError([NoResp EXCEPT !.op = "signup"]))
       ELSE LET userId == randomUUID(UserIdSeq, users)
            IN  /\ users' = users @@ (userId :>
                       [id |-> userId, email |-> toLowerCase(req[p].email),
                        password_hash |-> hashPassword(req[p].password, userId),
                        full_name |-> req[p].fullName, is_active |-> 1,
                        last_login_at |-> Null])
                /\ req' = [req EXCEPT ![p].pc = "signup_session", ![p].uid = userId]
                /\ last' = last
    /\ UNCHANGED <<sessions, issued, now, scope>>

\* A signup that is one transaction: when the session insert fails, the user
\* insert is rolled back.
SignupSessionRollsBack(p, dbOk) ==
    /\ req[p].pc = "signup_session"
    /\ IF ~dbOk
       THEN /\ sessions' = sessions
            /\ users' = [u \in DOMAIN users \ {req[p].uid} |-> users[u]]
            /\ Finish(p, InternalError([NoResp EXCEPT !.op = "signup",
                                                      !.uid = req[p].uid]))
       ELSE LET sessionId == randomUUID(SessionIdSeq, sessions)
            IN  /\ sessions' = createSession(sessions, sessionId, req[p].uid, now)
                /\ users' = users
                /\ req' = [req EXCEPT ![p].pc = "signup_token", ![p].sid = sessionId]
                /\ last' = last
    /\ UNCHANGED <<issued, now, scope>>

\* createSession: a fresh id, then the INSERT.  When it throws, the handler
\* stops with the user row already written.
SignupSession(p, dbOk) ==
    /\ req[p].pc = "signup_session"
    /\ IF ~dbOk
       THEN /\ sessions' = sessions
            /\ Finish(p, InternalError([NoResp EXCEPT !.op = "signup",
                                                      !.uid = req[p].uid]))
       ELSE LET sessionId == randomUUID(SessionIdSeq, sessions)
            IN  /\ sessions' = createSession(sessions, sessionId, req[p].uid, now)
                /\ req' = [req EXCEPT ![p].pc = "signup_token", ![p].sid = sessionId]
                /\ last' = last
    /\ UNCHANGED <<users, issued, now, scope>>

SignupToken(p) ==
    /\ req[p].pc = "signup_token"
    /\ LET token == createToken(req[p].sid, req[p].uid, toLowerCase(req[p].email), now)
       IN  /\ issued' = issued \cup {token}
           /\ Finish(p, [NoResp EXCEPT !.op = "signup", !.sid = req[p].sid,
                                       !.uid = req[p].uid, !.status = 201,
                                       !.user = <<req[p].uid, toLowerCase(req[p].email),
                                                  req[p].fullName>>,
                                       !.cookieOut = token])
    /\ UNCHANGED <<users, sessions, now, scope>>

-----------------------------------------------------------------------------

Next ==
    \/ Deliver
    \/ /\ last = NoResp
       /\ \/ Tick
          \/ \E u \in UserIds, flag \in {0, 1} : AdminSetUserActive(u, flag)
          \/ \E p \in Procs, sessionId \in SessionIdInputs, dbOk \in BOOLEAN :
                CallValidateSession(p, sessionId, dbOk)
          \/ \E p \in Procs, dbOk \in BOOLEAN : ValidateWrite(p, dbOk)
          \/ \E sessionId \in SessionIdInputs, dbOk \in BOOLEAN : CallRevokeSession(sessionId, dbOk)
          \/ \E dbOk \in BOOLEAN : cleanupExpiredSessions(dbOk)
          \/ \E p \in Procs, cookie \in Cookies, dbOk \in BOOLEAN : MeGET(p, cookie, dbOk)
          \/ \E p \in Procs, dbOk \in BOOLEAN : MeUser(p, dbOk)
          \/ \E cookie \in Cookies, dbOk \in BOOLEAN : LogoutPOST(cookie, dbOk)
          \/ \E cookie \in Cookies, dbOk \in BOOLEAN : LogoutAllPOST(cookie, dbOk)
          \/ \E cookie \in Cookies, dbOk \in BOOLEAN : SessionsGET(cookie, dbOk)
          \/ \E p \in Procs, cookie \in Cookies, sessionId \in SessionIdInputs \cup {""},
                dbOk \in BOOLEAN : SessionsDELETE(p, cookie, sessionId, dbOk)
          \/ \E p \in Procs, dbOk \in BOOLEAN : SessionsDELETERevoke(p, dbOk)
          \/ \E p \in Procs, email \in InputEmails, password \in LoginPasswords,
                dbOk \in BOOLEAN : LoginPOST(p, email, password, dbOk)
          \/ \E p \in Procs, dbOk \in BOOLEAN : LoginUpdate(p, dbOk)
          \/ \E p \in Procs, dbOk \in BOOLEAN : LoginSession(p, dbOk)
          \/ \E p \in Procs : LoginToken(p)
          \/ \E p \in Procs, email \in InputEmails, password \in SignupPasswords,
                fullName \in InputNames, dbOk \in BOOLEAN :
                SignupPOST(p, email, password, fullName, dbOk)
          \/ \E p \in Procs, dbOk \in BOOLEAN : SignupInsert(p, dbOk)
          \/ \E p \in Procs, dbOk \in BOOLEAN : SignupSession(p, dbOk)
          \/ \E p \in Procs : SignupToken(p)

Spec == Init /\ [][Next]_vars

-----------------------------------------------------------------------------
(* middleware.ts.  A pathname is a tuple of pieces of the path, so that    *)
(* startsWith is the prefix test on tuples.                                 *)

protectedPaths == {<<"/dashboard">>, <<"/mcqs">>}

authPaths == {<<"/login">>, <<"/signup">>}

\* The pathnames of the requests a browser sends.
Pathnames ==
    {<<"/dashboard">>, <<"/dashboard", "/settings">>, <<"/mcqs", "/1">>,
     <<"/login">>, <<"/signup">>, <<"/">>, <<"/about">>,
     <<"/dashboard", "/logo.png">>, <<"/api", "/auth", "/me">>}

startsWith(s, prefix) ==
    Len(prefix) <= Len(s) /\ SubSeq(s, 1, Len(prefix)) = prefix

\* config.matcher: the middleware runs for every path but those under api
\* and _next/static, _next/image, favicon.ico, and those that have a dot.
matcher(pathname) ==
    /\ pathname[1] \notin {"/api", "/_next"}
    /\ \A i \in DOMAIN pathname : pathname[i] \notin {"/logo.png", "/favicon.ico"}

\* NextResponse.redirect(url) and NextResponse.next()
Redirect(pathname, redirect) ==
    [NoResp EXCEPT !.op = "middleware", !.status = 307, !.result = "redirect",
                   !.location = <<pathname, redirect>>]

PassOn == [NoResp EXCEPT !.op = "middleware", !.result = "next"]

\* A gate that lets a token through without verifying it.
middlewareTrustsToken(pathname, cookie) ==
    /\ matcher(pathname)
    /\ LET isProtectedPath == \E path \in protectedPaths : startsWith(pathname, path)
           isAuthPath == \E path \in authPaths : startsWith(pathname, path)
           sid == CookieSid(cookie)
       IN  IF isProtectedPath
           THEN IF cookie = NoCookie
                THEN last' = [Redirect(<<"/login">>, pathname) EXCEPT !.path = pathname]
                ELSE last' = [[PassOn EXCEPT !.sid = sid] EXCEPT !.path = pathname]
           ELSE IF isAuthPath /\ cookie # NoCookie
           THEN last' = [[Redirect(<<"/dashboard">>, <<>>) EXCEPT !.sid = sid] EXCEPT !.path = pathname]
           ELSE last' = [PassOn EXCEPT !.path = pathname]
    /\ UNCHANGED <<users, sessions, issued, now, scope, req>>

\* A gate that leaves a cookie that fails verification in place on the forms.
middlewareKeepsBadCookie(pathname, cookie) ==
    /\ matcher(pathname)
    /\ LET isProtectedPath == \E path \in protectedPaths : startsWith(pathname, path)
           isAuthPath == \E path \in authPaths : startsWith(pathname, path)
           sid == CookieSid(cookie)
       IN  IF isProtectedPath
           THEN IF cookie = NoCookie
                THEN last' = [Redirect(<<"/login">>, pathname) EXCEPT !.path = pathname]
                ELSE IF verifyToken(cookie, now)
                THEN last' = [[PassOn EXCEPT !.sid = sid] EXCEPT !.path = pathname]
                ELSE last' = [[Redirect(<<"/login">>, <<>>) EXCEPT !.cookieOut = Deleted] EXCEPT !.path = pathname]
           ELSE IF isAuthPath /\ cookie # NoCookie
           THEN IF verifyToken(cookie, now)
                THEN last' = [[Redirect(<<"/dashboard">>, <<>>) EXCEPT !.sid = sid] EXCEPT !.path = pathname]
                ELSE last' = [PassOn EXCEPT !.path = pathname]
           ELSE last' = [PassOn EXCEPT !.path = pathname]
    /\ UNCHANGED <<users, sessions, issued, now, scope, req>>

\* A gate that protects every path but the forms.
middlewareGatesEveryPath(pathname, cookie) ==
    /\ matcher(pathname)
    /\ LET isProtectedPath == \A path \in authPaths : ~startsWith(pathname, path)
           isAuthPath == \E path \in authPaths : startsWith(pathname, path)
           sid == CookieSid(cookie)
       IN  IF isProtectedPath
           THEN IF cookie = NoCookie
                THEN last' = [Redirect(<<"/login">>, pathname) EXCEPT !.path = pathname]
                ELSE IF verifyToken(cookie, now)
                THEN last' = [[PassOn EXCEPT !.sid = sid] EXCEPT !.path = pathname]
                ELSE last' = [[Redirect(<<"/login">>, <<>>) EXCEPT !.cookieOut = Deleted] EXCEPT !.path = pathname]
           ELSE IF isAuthPath /\ cookie # NoCookie
           THEN IF verifyToken(cookie, now)
                THEN last' = [[Redirect(<<"/dashboard">>, <<>>) EXCEPT !.sid = sid] EXCEPT !.path = pathname]
                ELSE last' = [[PassOn EXCEPT !.cookieOut = Deleted] EXCEPT !.path = pathname]
           ELSE last' = [PassOn EXCEPT !.path = pathname]
    /\ UNCHANGED <<users, sessions, issued, now, scope, req>>

\* A gate that also asks the session store, as the setup guide shows it.
middlewareValidatesSession(pathname, cookie) ==
    /\ matcher(pathname)
    /\ LET isProtectedPath == \E path \in protectedPaths : startsWith(pathname, path)
           isAuthPath == \E path \in authPaths : startsWith(pathname, path)
           sid == CookieSid(cookie)
       IN  IF isProtectedPath
           THEN IF cookie = NoCookie
                THEN last' = [Redirect(<<"/login">>, pathname) EXCEPT !.path = pathname]
                ELSE IF verifyToken(cookie, now) /\ getSession(sessions, sid) # <<>>
                THEN last' = [[PassOn EXCEPT !.sid = sid] EXCEPT !.path = pathname]
                ELSE last' = [[Redirect(<<"/login">>, <<>>) EXCEPT !.cookieOut = Deleted] EXCEPT !.path = pathname]
           ELSE IF isAuthPath /\ cookie # NoCookie
           THEN IF verifyToken(cookie, now)
                THEN last' = [[Redirect(<<"/dashboard">>, <<>>) EXCEPT !.sid = sid] EXCEPT !.path = pathname]
                ELSE last' = [[PassOn EXCEPT !.cookieOut = Deleted] EXCEPT !.path = pathname]
           ELSE last' = [PassOn EXCEPT !.path = pathname]
    /\ UNCHANGED <<users, sessions, issued, now, scope, req>>

\* export async function middleware(request)
middleware(pathname, cookie) ==
    /\ matcher(pathname)
    /\ LET isProtectedPath == \E path \in protectedPaths : startsWith(pathname, path)
           isAuthPath == \E path \in authPaths : startsWith(pathname, path)
           sid == CookieSid(cookie)
       IN  IF isProtectedPath
           THEN IF cookie = NoCookie
                THEN last' = [Redirect(<<"/login">>, pathname) EXCEPT !.path = pathname]
                ELSE IF verifyToken(cookie, now)
                THEN last' = [[PassOn EXCEPT !.sid = sid] EXCEPT !.path = pathname]
                ELSE last' = [[Redirect(<<"/login">>, <<>>) EXCEPT !.cookieOut = Deleted] EXCEPT !.path = pathname]
           ELSE IF isAuthPath /\ cookie # NoCookie
           THEN IF verifyToken(cookie, now)
                THEN last' = [[Redirect(<<"/dashboard">>, <<>>) EXCEPT !.sid = sid] EXCEPT !.path = pathname]
                ELSE last' = [[PassOn EXCEPT !.cookieOut = Deleted] EXCEPT !.path = pathname]
           ELSE last' = [PassOn EXCEPT !.path = pathname]
    /\ UNCHANGED <<users, sessions, issued, now, scope, req>>

\* Page requests pass the gate; the handlers issue the tokens the requests
\* carry and end their sessions.
GateNext ==
    \/ Deliver
    \/ /\ last = NoResp
       /\ \/ Tick
          \/ \E pathname \in Pathnames, cookie \in Cookies : middleware(pathname, cookie)
          \/ \E cookie \in Cookies, dbOk \in BOOLEAN : LogoutPOST(cookie, dbOk)
          \/ \E cookie \in Cookies, dbOk \in BOOLEAN : LogoutAllPOST(cookie, dbOk)
          \/ \E p \in Procs, email \in InputEmails, password \in LoginPasswords,
                dbOk \in BOOLEAN : LoginPOST(p, email, password, dbOk)
          \/ \E p \in Procs, dbOk \in BOOLEAN : LoginUpdate(p, dbOk)
          \/ \E p \in Procs, dbOk \in BOOLEAN : LoginSession(p, dbOk)
          \/ \E p \in Procs : LoginToken(p)
          \/ \E p \in Procs, email \in InputEmails, password \in SignupPasswords,
                fullName \in InputNames, dbOk \in BOOLEAN :
                SignupPOST(p, email, password, fullName, dbOk)
          \/ \E p \in Procs, dbOk \in BOOLEAN : SignupInsert(p, dbOk)
          \/ \E p \in Procs, dbOk \in BOOLEAN : SignupSession(p, dbOk)
          \/ \E p \in Procs : SignupToken(p)

GateSpec == Init /\ [][GateNext]_vars

-----------------------------------------------------------------------------
(* Signups with passwords that break each rule of validatePasswordStrength *)

\* "abc", "Password1", "password1", "PASSTAB1", "Password", "Pass1",
\* "Passwo1", "Passwor1" and the empty password.
StrengthPasswords ==
    {PwWeak, PwOne,
     <<"p", "a", "s", "s", "w", "o", "r", "d", "1">>,
     <<"P", "A", "S", "S", "T", "A", "B", "1">>,
     <<"P", "a", "s", "s", "w", "o", "r", "d">>,
     <<"P", "a", "s", "s", "1">>,
     <<"P", "a", "s", "s", "w", "o", "1">>,
     <<"P", "a", "s", "s", "w", "o", "r", "1">>,
     Empty}

StrengthNext ==
    \/ Deliver
    \/ /\ last = NoResp
       /\ \/ \E p \in Procs, email \in InputEmails, password \in StrengthPasswords,
                fullName \in InputNames, dbOk \in BOOLEAN :
                SignupPOST(p, email, password, fullName, dbOk)
          \/ \E p \in Procs, dbOk \in BOOLEAN : SignupInsert(p, dbOk)
          \/ \E p \in Procs, dbOk \in BOOLEAN : SignupSession(p, dbOk)
          \/ \E p \in Procs : SignupToken(p)

StrengthSpec == Init /\ [][StrengthNext]_vars

-----------------------------------------------------------------------------
(* Concurrent requests: the handlers that read and write user rows, signup *)
(* and login, run by several handlers whose statements interleave.         *)

ConcurrentInit ==
    /\ users = <<>>
    /\ sessions = <<>>
    /\ issued = {}
    /\ now = 0
    /\ scope = ConcurrentScope
    /\ req = [p \in Procs |-> IdleReq]
    /\ last = NoResp

ConcurrentNext ==
    \/ Deliver
    \/ /\ last = NoResp
       /\ \/ \E u \in UserIds, flag \in {0, 1} : AdminSetUserActive(u, flag)
          \/ \E p \in Procs, email \in InputEmails, password \in LoginPasswords,
                dbOk \in BOOLEAN : LoginPOST(p, email, password, dbOk)
          \/ \E p \in Procs, dbOk \in BOOLEAN : LoginUpdate(p, dbOk)
          \/ \E p \in Procs, dbOk \in BOOLEAN : LoginSession(p, dbOk)
          \/ \E p \in Procs : LoginToken(p)
          \/ \E p \in Procs, email \in InputEmails, password \in SignupPasswords,
                fullName \in InputNames, dbOk \in BOOLEAN :
                SignupPOST(p, email, password, fullName, dbOk)
          \/ \E p \in Procs, dbOk \in BOOLEAN : SignupInsert(p, dbOk)
          \/ \E p \in Procs, dbOk \in BOOLEAN : SignupSession(p, dbOk)
          \/ \E p \in Procs : SignupToken(p)

ConcurrentSpec == ConcurrentInit /\ [][ConcurrentNext]_vars

-----------------------------------------------------------------------------
(* Concurrent validations: validateSession called by several handlers, its  *)
(* SELECT and its UPDATE interleaving with those of the other call, while   *)
(* time passes.                                                            *)

ValidateScope ==
    [users |-> MaxUsers, sessions |-> MaxSessions - 1, horizon |-> MaxNow, procs |-> MaxProcs]

ValidateInit ==
    /\ users = <<>>
    /\ sessions = <<>>
    /\ issued = {}
    /\ now = 0
    /\ scope = ValidateScope
    /\ req = [p \in Procs |-> IdleReq]
    /\ last = NoResp

ValidateNext ==
    \/ Deliver
    \/ /\ last = NoResp
       /\ \/ Tick
          \/ \E p \in Procs, sessionId \in SessionIdInputs, dbOk \in BOOLEAN :
                CallValidateSession(p, sessionId, dbOk)
          \/ \E p \in Procs, dbOk \in BOOLEAN : ValidateWrite(p, dbOk)
          \/ \E p \in Procs, email \in {EmA, EmB}, dbOk \in BOOLEAN :
                SignupPOST(p, email, PwOne, <<"T">>, dbOk)
          \/ \E p \in Procs, dbOk \in BOOLEAN : SignupInsert(p, dbOk)
          \/ \E p \in Procs, dbOk \in BOOLEAN : SignupSession(p, dbOk)
          \/ \E p \in Procs : SignupToken(p)

ValidateSpec == ValidateInit /\ [][ValidateNext]_vars

-----------------------------------------------------------------------------
(* The claims *)

\* The instant a stored timestamp denotes.
InstantOf(text) == text[2]

\* The specification's live session: is_active is true and the current
\* time is before expires_at.
Live(ss, sessionId, t) ==
    /\ sessionId \in DOMAIN ss
    /\ ss[sessionId].is_active = 1
    /\ t < InstantOf(ss[sessionId].expires_at)

Inactive(ss, sessionId) == sessionId \in DOMAIN ss /\ ss[sessionId].is_active = 0

\* C1: session revocation is monotonic.  No step of any operation, in any
\* interleaving, sets is_active of a session row back to 1 once it is 0, and
\* a validateSession call that starts on an inactive session returns false
\* at once (it throws when the datastore fails, and never returns true).
RevocationIsMonotonic ==
    [][/\ \A s \in DOMAIN sessions :
             sessions[s].is_active = 0 =>
                 s \in DOMAIN sessions' /\ sessions'[s].is_active = 0
       /\ \A p \in Procs, s \in SessionIds, dbOk \in BOOLEAN :
             Inactive(sessions, s) /\ CallValidateSession(p, s, dbOk) =>
                 /\ req'[p].pc = "idle"
                 /\ last'.op = "validateSession"
                 /\ last'.result = IF dbOk THEN "false" ELSE "throw"]_vars

\* C1's case: validateSession returned false for a session that was revoked.
RevokedSessionValidatedFalse ==
    /\ last.op = "validateSession"
    /\ last.result = "false"
    /\ Inactive(sessions, last.sid)

\* C2: GET /me answers 200 with the user only for a token that verifies and
\* a session validateSession reports live; it answers 401 for an absent,
\* invalid or expired token and for a session that is revoked or past its
\* expires_at (deleting the cookie in the session case), and 404 when the
\* user row is missing or inactive when it is read.
WhoAmIRequiresLiveSession ==
    [][/\ \A p \in Procs, cookie \in Cookies :
             MeGET(p, cookie, TRUE) =>
                 IF cookie = NoCookie \/ ~verifyToken(cookie, now)
                 THEN req'[p].pc = "idle" /\ last'.op = "me" /\ last'.status = 401
                 ELSE IF getSession(sessions, cookie.sessionId) = <<>>
                 THEN /\ req'[p].pc = "idle"
                      /\ last'.status = 401
                      /\ last'.cookieOut = Deleted
                 ELSE /\ req'[p].pc = "validate_write"
                      /\ InstantOf(sessions[cookie.sessionId].expires_at) < now
                             => req'[p].expired
       /\ \A p \in Procs :
             ValidateWrite(p, TRUE) /\ req[p].op = "me" =>
                 IF req[p].expired
                 THEN /\ req'[p].pc = "idle"
                      /\ last'.status = 401
                      /\ last'.cookieOut = Deleted
                 ELSE req'[p].pc = "me_user"
       /\ \A p \in Procs :
             MeUser(p, TRUE) =>
                 /\ req'[p].pc = "idle"
                 /\ last'.status =
                        IF req[p].uid \in DOMAIN users /\ users[req[p].uid].is_active = 1
                        THEN 200 ELSE 404]_vars

\* C6: validateSession returns true if and only if the session is live when
\* it is called: the row exists, is_active = 1 and the current time is
\* before expires_at.
ValidateSessionIffLive ==
    [][/\ \A p \in Procs, s \in SessionIds :
             CallValidateSession(p, s, TRUE) =>
                 IF Live(sessions, s, now)
                 THEN req'[p].pc = "validate_write" /\ ~req'[p].expired
                 ELSE \/ req'[p].pc = "idle" /\ last'.result = "false"
                      \/ req'[p].pc = "validate_write" /\ req'[p].expired
       /\ \A p \in Procs :
             ValidateWrite(p, TRUE) /\ req[p].op = "validateSession" =>
                 /\ req'[p].pc = "idle"
                 /\ last'.result = IF req[p].expired THEN "false" ELSE "true"]_vars

\* C7: lazy expiry.  validateSession called on an active session whose
\* expires_at is in the past returns false and sets the row's is_active to 0.
LazyExpiry ==
    [][/\ \A p \in Procs, s \in SessionIds :
             /\ s \in DOMAIN sessions
             /\ sessions[s].is_active = 1
             /\ InstantOf(sessions[s].expires_at) < now
             /\ CallValidateSession(p, s, TRUE)
             => req'[p].pc = "validate_write" /\ req'[p].expired
       /\ \A p \in Procs :
             ValidateWrite(p, TRUE) /\ req[p].op = "validateSession" /\ req[p].expired =>
                 /\ last'.result = "false"
                 /\ sessions'[req[p].sid].is_active = 0]_vars

\* C3: ownership.  DELETE /sessions with an issued token of user A that verifies and
\* the id of a session of another user B answers 404 and leaves the sessions
\* table as it was (500 when the datastore fails), and the revoke step of a
\* DELETE changes no session of a user other than the caller.
RevokeOneChecksOwnership ==
    [][/\ \A p \in Procs, cookie \in issued, s \in DOMAIN sessions, dbOk \in BOOLEAN :
             /\ verifyToken(cookie, now)
             /\ sessions[s].user_id # cookie.userId
             /\ SessionsDELETE(p, cookie, s, dbOk)
             => /\ sessions' = sessions
                /\ req'[p].pc = "idle"
                /\ last'.status = IF dbOk THEN 404 ELSE 500
                /\ dbOk => last'.error = "Session not found"
       /\ \A p \in Procs, dbOk \in BOOLEAN :
             SessionsDELETERevoke(p, dbOk) =>
                 \A s \in DOMAIN sessions :
                     sessions[s].user_id # req[p].uid => sessions'[s] = sessions[s]]_vars

\* C3's case: user A was answered 404 for the session of B, which is still
\* active.
ForeignSessionNotFound ==
    /\ last.op = "sessions-delete"
    /\ last.status = 404
    /\ last.uid \in DOMAIN users
    /\ last.sid \in DOMAIN sessions
    /\ sessions[last.sid].user_id # last.uid
    /\ sessions[last.sid].user_id \in DOMAIN users
    /\ sessions[last.sid].is_active = 1

\* The emails and passwords a login can carry.
Credentials == (InputEmails \ {Empty}) \X (LoginPasswords \ {Empty})

Registered(cred) == userByEmail(users, toLowerCase(cred[1])) # <<>>

RegisteredUser(cred) == userByEmail(users, toLowerCase(cred[1]))[1]

WrongPassword(cred) ==
    Registered(cred) /\ ~verifyPassword(cred[2], RegisteredUser(cred).password_hash)

\* C4 as stated: a login with an unregistered email and any password and a
\* login with a registered email, whatever the state of its account, and a
\* wrong password get the same status and the same error payload.
LoginHidesRegistration ==
    \A c1 \in {c \in Credentials : ~Registered(c)} :
        \A c2 \in {c \in Credentials : WrongPassword(c)} :
            loginCheck(users, c1[1], c1[2]) = loginCheck(users, c2[1], c2[2])

\* C4, amended: a login with an unregistered email and any password and a
\* login with the email of an active account and a wrong password get the
\* same status and the same error payload.
LoginHidesRegistrationOfActiveAccounts ==
    \A c1 \in {c \in Credentials : ~Registered(c)} :
        \A c2 \in {c \in Credentials : WrongPassword(c) /\ RegisteredUser(c).is_active = 1} :
            loginCheck(users, c1[1], c1[2]) = loginCheck(users, c2[1], c2[2])

\* C4's case: a login with the email of an active account and a wrong
\* password was refused.
WrongPasswordRefused ==
    /\ last.op = "login"
    /\ last.status = 401
    /\ last.uid \in DOMAIN users
    /\ users[last.uid].is_active = 1

\* C5: a login inserts a session under an id no session has, active and
\* validating; POST /logout-all with a token of the user that verifies
\* leaves every session of the user inactive; and GET /me with a token of an
\* inactive session answers 401.
LogoutAllEndsEverySession ==
    [][/\ \A p \in Procs :
             LoginSession(p, TRUE) =>
                 /\ req'[p].sid \notin DOMAIN sessions
                 /\ getSession(sessions', req'[p].sid) # <<>>
                 /\ sessions'[req'[p].sid].user_id = req[p].uid
                 /\ \A s \in DOMAIN sessions : sessions'[s] = sessions[s]
       /\ \A p \in Procs, s \in SessionIds :
             Live(sessions, s, now) /\ CallValidateSession(p, s, TRUE) =>
                 req'[p].pc = "validate_write" /\ ~req'[p].expired
       /\ \A p \in Procs :
             ValidateWrite(p, TRUE) /\ req[p].op = "validateSession" /\ ~req[p].expired =>
                 last'.result = "true"
       /\ \A cookie \in issued :
             verifyToken(cookie, now) /\ LogoutAllPOST(cookie, TRUE) =>
                 \A s \in DOMAIN sessions :
                     sessions[s].user_id = cookie.userId => sessions'[s].is_active = 0
       /\ \A p \in Procs, cookie \in issued, dbOk \in BOOLEAN :
             /\ verifyToken(cookie, now)
             /\ Inactive(sessions, cookie.sessionId)
             /\ MeGET(p, cookie, dbOk)
             => req'[p].pc = "idle" /\ last'.status = 401]_vars

\* C5's case: a user with two sessions from logins, both of them inactive
\* and both with a token that still verifies, was answered 401 by GET /me.
BothLoginsLoggedOut ==
    /\ last.op = "me"
    /\ last.status = 401
    /\ \E t1, t2 \in issued :
          /\ t1.sessionId # t2.sessionId
          /\ t1.userId = t2.userId
          /\ last.sid = t1.sessionId
          /\ {t1.sessionId, t2.sessionId} \cap {SessionIdSeq[1]} = {}
          /\ verifyToken(t1, now) /\ verifyToken(t2, now)
          /\ Inactive(sessions, t1.sessionId) /\ Inactive(sessions, t2.sessionId)

\* C8: POST /logout never fails the caller.  For every cookie (absent,
\* malformed, tampered, expired, of an active session, of a revoked session)
\* and whether or not the datastore call succeeds, it answers 200 and deletes
\* the cookie; with a token that verifies and a working datastore the
\* session of the token is inactive afterwards, and a logout on a session
\* that is already inactive changes nothing.
LogoutNeverFails ==
    [][\A cookie \in Cookies, dbOk \in BOOLEAN :
          LogoutPOST(cookie, dbOk) =>
              /\ last'.op = "logout"
              /\ last'.status = 200
              /\ last'.error = ""
              /\ last'.cookieOut = Deleted
              /\ verifyToken(cookie, now) /\ dbOk /\ cookie.sessionId \in DOMAIN sessions
                     => Inactive(sessions', cookie.sessionId)
              /\ verifyToken(cookie, now) /\ Inactive(sessions, cookie.sessionId)
                     => sessions' = sessions]_vars

\* C8's case: a logout with the token of a session that was already
\* inactive was answered 200 with the cookie deleted.
LogoutAnswered ==
    /\ last.op = "logout"
    /\ last.status = 200
    /\ last.cookieOut = Deleted
    /\ Inactive(sessions, last.sid)
    /\ \E t \in issued : t.sessionId = last.sid /\ verifyToken(t, now)

\* C9: POST /logout changes at most one session row.  With a token that
\* verifies, only is_active of the session named in the token changes, to 0;
\* every other session row and every user row is unchanged; with an absent
\* or invalid token, or a failing datastore, nothing changes.
LogoutRevokesAtMostOne ==
    [][\A cookie \in Cookies, dbOk \in BOOLEAN :
          LogoutPOST(cookie, dbOk) =>
              /\ users' = users
              /\ DOMAIN sessions' = DOMAIN sessions
              /\ \A s \in DOMAIN sessions :
                    IF verifyToken(cookie, now) /\ dbOk /\ s = cookie.sessionId
                    THEN sessions'[s] = [sessions[s] EXCEPT !.is_active = 0]
                    ELSE sessions'[s] = sessions[s]]_vars

\* C9's case: a logout ended one session of a user and another session of
\* that user is still active.
LogoutLeftSiblingActive ==
    /\ last.op = "logout"
    /\ Inactive(sessions, last.sid)
    /\ \E s \in DOMAIN sessions :
          /\ s # last.sid
          /\ sessions[s].user_id = sessions[last.sid].user_id
          /\ sessions[s].is_active = 1

\* C10: revokeSession is idempotent and total.  On an active session it
\* sets is_active to 0; on an inactive session and on an id without a row it
\* changes nothing and raises no error; a second call leaves the datastore
\* as the first one left it.
RevokeIsIdempotent ==
    [][\A s \in SessionIds :
          CallRevokeSession(s, TRUE) =>
              /\ last'.result = "void"
              /\ s \in DOMAIN sessions => Inactive(sessions', s)
              /\ s \notin DOMAIN sessions \/ Inactive(sessions, s) => sessions' = sessions
              /\ \A o \in DOMAIN sessions : o # s => sessions'[o] = sessions[o]
              /\ revokeSession(sessions', s) = sessions']_vars

\* C10's case: revokeSession returned for a session that is inactive.
RevokeReturned ==
    /\ last.op = "revokeSession"
    /\ last.result = "void"
    /\ Inactive(sessions, last.sid)

\* C11: revokeAllUserSessions(userId), as POST /logout-all calls it, sets
\* is_active to 0 on every session row of userId and changes nothing else of
\* these rows, the session of the caller's own token included; every row of
\* another user, and every user row, is unchanged; no row is added or
\* removed; and a second call leaves the datastore as the first one left it.
RevokeAllFrame ==
    [][\A cookie \in issued :
          verifyToken(cookie, now) /\ LogoutAllPOST(cookie, TRUE) =>
              /\ users' = users
              /\ DOMAIN sessions' = DOMAIN sessions
              /\ \A s \in DOMAIN sessions :
                    IF sessions[s].user_id = cookie.userId
                    THEN sessions'[s] = [sessions[s] EXCEPT !.is_active = 0]
                    ELSE sessions'[s] = sessions[s]
              /\ cookie.sessionId \in DOMAIN sessions
                    => Inactive(sessions', cookie.sessionId)
              /\ revokeAllUserSessions(sessions', cookie.userId) = sessions']_vars

\* C11's case: POST /logout-all ended the caller's own session while a
\* session of another user is still active.
RevokeAllSparedOtherUser ==
    /\ last.op = "logout-all"
    /\ last.status = 200
    /\ Inactive(sessions, last.sid)
    /\ \E s \in DOMAIN sessions :
          sessions[s].user_id # last.uid /\ sessions[s].is_active = 1

\* C12: POST /logout-all, GET /sessions and DELETE /sessions answer 401 and
\* change no user row and no session row whenever the cookie is absent or
\* its token does not verify (malformed, tampered with, or expired), the
\* datastore being available.
TokenlessRequestsAnswered401 ==
    [][\A cookie \in Cookies :
          ~verifyToken(cookie, now) =>
              /\ LogoutAllPOST(cookie, TRUE) \/ SessionsGET(cookie, TRUE)
                    => /\ last'.status = 401
                       /\ users' = users /\ sessions' = sessions
              /\ \A p \in Procs, sessionId \in SessionIdInputs \cup {""} :
                    SessionsDELETE(p, cookie, sessionId, TRUE)
                    => /\ req'[p].pc = "idle"
                       /\ last'.status = 401
                       /\ users' = users /\ sessions' = sessions]_vars

\* C13: a token that verifies but whose own session is revoked is answered
\* as unauthenticated by every operation that requires a token: GET /me,
\* POST /logout-all, GET /sessions and DELETE /sessions answer 401, no
\* session is listed and no session row changes.
RevokedSessionTokenIsUnauthenticated ==
    [][\A cookie \in issued :
          verifyToken(cookie, now) /\ Inactive(sessions, cookie.sessionId) =>
              /\ \A p \in Procs :
                    MeGET(p, cookie, TRUE) => req'[p].pc = "idle" /\ last'.status = 401
              /\ LogoutAllPOST(cookie, TRUE) \/ SessionsGET(cookie, TRUE)
                    => /\ last'.status = 401
                       /\ last'.list = <<>>
                       /\ sessions' = sessions
              /\ \A p \in Procs, sessionId \in SessionIdInputs \cup {""} :
                    SessionsDELETE(p, cookie, sessionId, TRUE)
                    => /\ req'[p].pc = "idle"
                       /\ last'.status = 401
                       /\ sessions' = sessions]_vars

\* C14: in every reachable state no two user rows have the same lower-cased
\* email, also when signups for one address, or for addresses that differ
\* only in letter case, run concurrently and both pass the existence check.
EmailsAreUnique ==
    \A u1, u2 \in DOMAIN users :
        u1 # u2 => toLowerCase(users[u1].email) # toLowerCase(users[u2].email)

\* C14's case: two signups for addresses that differ only in letter case
\* both passed the existence check; one has inserted its user row and the
\* other is about to run its insert.
RacingSignupAfterWinner ==
    \E p \in Procs :
        /\ req[p].pc = "signup_insert"
        /\ \E u \in DOMAIN users :
              /\ users[u].email = toLowerCase(req[p].email)
              /\ users[u].email # req[p].email

\* C15: a POST /signup whose lower-cased email is registered, whether the
\* existence check sees it or only the insert does (the request lost a race
\* against a concurrent signup that passed the check with it), answers 409
\* and adds no user row and no session row.
DuplicateSignupAnswered409 ==
    [][\A p \in Procs :
          /\ \A email \in InputEmails, fullName \in InputNames :
                /\ signupCheck(email, PwOne, fullName).status = 0
                /\ userByEmail(users, toLowerCase(email)) # <<>>
                /\ SignupPOST(p, email, PwOne, fullName, TRUE)
                => /\ last'.status = 409
                   /\ users' = users /\ sessions' = sessions
          /\ /\ req[p].pc = "signup_insert"
             /\ userByEmail(users, toLowerCase(req[p].email)) # <<>>
             /\ SignupInsert(p, TRUE)
             => /\ req'[p].pc = "idle"
                /\ last'.status = 409
                /\ users' = users /\ sessions' = sessions]_vars

\* C16: a POST /signup that succeeds adds exactly one user row, with the
\* lower-cased email and the password only as a hash that verifies it, and
\* exactly one session row, active and owned by that user; it answers 201
\* with the user and sets as cookie a token of that session and user that
\* verifies.  A GET /me with a token that verifies, of an active session of
\* an active user, answers 200 with the email and the full name of the
\* user's row, which no step changes after the signup stored them.
SignupCreatesAccount ==
    [][/\ \A p \in Procs :
             /\ req[p].pc = "signup_insert"
             /\ userByEmail(users, toLowerCase(req[p].email)) = <<>>
             /\ SignupInsert(p, TRUE)
             => /\ req'[p].uid \notin DOMAIN users
                /\ DOMAIN users' = DOMAIN users \cup {req'[p].uid}
                /\ \A u \in DOMAIN users : users'[u] = users[u]
                /\ users'[req'[p].uid].email = toLowerCase(req[p].email)
                /\ users'[req'[p].uid].full_name = req[p].fullName
                /\ users'[req'[p].uid].password_hash # req[p].password
                /\ verifyPassword(req[p].password, users'[req'[p].uid].password_hash)
                /\ sessions' = sessions
       /\ \A p \in Procs :
             SignupSession(p, TRUE) =>
                /\ req'[p].sid \notin DOMAIN sessions
                /\ DOMAIN sessions' = DOMAIN sessions \cup {req'[p].sid}
                /\ \A s \in DOMAIN sessions : sessions'[s] = sessions[s]
                /\ sessions'[req'[p].sid].user_id = req[p].uid
                /\ sessions'[req'[p].sid].is_active = 1
                /\ users' = users
       /\ \A p \in Procs :
             SignupToken(p) =>
                /\ last'.status = 201
                /\ last'.user = <<req[p].uid, users[req[p].uid].email,
                                  users[req[p].uid].full_name>>
                /\ verifyToken(last'.cookieOut, now)
                /\ last'.cookieOut.sessionId = req[p].sid
                /\ last'.cookieOut.userId = req[p].uid
                /\ sessions[req[p].sid].user_id = req[p].uid
                /\ users' = users /\ sessions' = sessions
       /\ \A u \in DOMAIN users :
             users'[u].email = users[u].email /\ users'[u].full_name = users[u].full_name
       /\ \A p \in Procs, cookie \in issued :
             /\ verifyToken(cookie, now)
             /\ getSession(sessions, cookie.sessionId) # <<>>
             /\ InstantOf(sessions[cookie.sessionId].expires_at) > now
             /\ MeGET(p, cookie, TRUE)
             => /\ req'[p].pc = "validate_write" /\ ~req'[p].expired
                /\ req'[p].uid = cookie.userId
       /\ \A p \in Procs :
             req[p].op = "me" /\ ~req[p].expired /\ ValidateWrite(p, TRUE)
             => req'[p].pc = "me_user"
       /\ \A p \in Procs :
             /\ req[p].pc = "me_user"
             /\ users[req[p].uid].is_active = 1
             /\ MeUser(p, TRUE)
             => /\ last'.status = 200
                /\ last'.user = <<req[p].uid, users[req[p].uid].email,
                                  users[req[p].uid].full_name>>]_vars

\* C16's case: GET /me answered 200 with the email and the full name of a
\* user who has never logged in, so that the token presented is the one of
\* the signup.
SignedUpUserSeen ==
    /\ last.op = "me"
    /\ last.status = 200
    /\ users[last.uid].last_login_at = Null
    /\ last.user = <<last.uid, EmA, <<"T">>>>
    /\ sessions[last.sid].user_id = last.uid

\* C17: a POST /login that succeeds sets last_login_at of the user and
\* changes no other column or user row; it inserts one session row under an
\* id that no session row has, owned by the user and active, and leaves
\* every session row that existed as it was; and it answers 200 with a
\* token that carries the new session id, which no token issued before
\* carries.
LoginMintsNewSession ==
    [][\A p \in Procs :
          /\ LoginUpdate(p, TRUE) =>
                /\ users' = [users EXCEPT
                                ![req[p].uid].last_login_at = CurrentTimestamp(now)]
                /\ sessions' = sessions
          /\ LoginSession(p, TRUE) =>
                /\ req'[p].sid \notin DOMAIN sessions
                /\ DOMAIN sessions' = DOMAIN sessions \cup {req'[p].sid}
                /\ \A s \in DOMAIN sessions : sessions'[s] = sessions[s]
                /\ sessions'[req'[p].sid].user_id = req[p].uid
                /\ sessions'[req'[p].sid].is_active = 1
                /\ users[req[p].uid].last_login_at # Null
                /\ users' = users
          /\ LoginToken(p) =>
                /\ last'.status = 200
                /\ last'.cookieOut.sessionId = req[p].sid
                /\ last'.cookieOut.userId = req[p].uid
                /\ verifyToken(last'.cookieOut, now)
                /\ sessions[req[p].sid].user_id = req[p].uid
                /\ \A t \in issued : t.sessionId # req[p].sid
                /\ users' = users /\ sessions' = sessions]_vars

\* C17's case: a login was answered 200 with the token of a new session
\* while the user has another active session, from before.
SecondSessionFromLogin ==
    /\ last.op = "login"
    /\ last.status = 200
    /\ last.cookieOut.sessionId = last.sid
    /\ users[last.uid].last_login_at # Null
    /\ \E s \in DOMAIN sessions :
          /\ s # last.sid
          /\ sessions[s].user_id = last.uid
          /\ sessions[s].is_active = 1
          /\ sessions[last.sid].is_active = 1

\* C18: POST /login with the email of a registered user whose is_active is 0
\* answers 403 "Account is inactive" whatever password is supplied, the
\* right one included; the request ends there: no session row is added, no
\* row changes, no token is issued and no cookie is set.
InactiveAccountRefused ==
    [][\A u \in {v \in DOMAIN users : users[v].is_active = 0}, p \in Handlers :
          \A email \in {e \in InputEmails : toLowerCase(e) = users[u].email},
             password \in LoginPasswords \ {Empty} :
          /\ req[p].pc = "idle"
          /\ LoginPOST(p, email, password, TRUE)
          => /\ last'.status = 403
             /\ last'.error = "Account is inactive"
             /\ last'.cookieOut = Unchanged
             /\ req'[p].pc = "idle"
             /\ users' = users /\ sessions' = sessions /\ issued' = issued]_vars

\* C18's case: a login for a user who signed up, and so has a session and a
\* known password, and who is inactive, was answered 403.
InactiveLoginAnswered ==
    /\ last.op = "login"
    /\ last.status = 403
    /\ users[last.uid].is_active = 0
    /\ \E s \in DOMAIN sessions : sessions[s].user_id = last.uid

\* C19: getUserSessions(userId), as GET /sessions returns it, holds exactly
\* the live sessions of userId: every session listed is a row of the user,
\* active and not past its expires_at, every active session of the user
\* that is before its expires_at is listed, and the list is in descending
\* order of last_active_at.
ListingHoldsLiveSessions ==
    [][\A cookie \in issued :
          verifyToken(cookie, now) /\ SessionsGET(cookie, TRUE) =>
              /\ last'.status = 200
              /\ \A i \in DOMAIN last'.list :
                    LET s == last'.list[i].id
                    IN  /\ s \in DOMAIN sessions
                        /\ sessions[s].user_id = cookie.userId
                        /\ sessions[s].is_active = 1
                        /\ InstantOf(sessions[s].expires_at) >= now
              /\ \A s \in DOMAIN sessions :
                    /\ sessions[s].user_id = cookie.userId
                    /\ sessions[s].is_active = 1
                    /\ InstantOf(sessions[s].expires_at) > now
                    => \E i \in DOMAIN last'.list : last'.list[i].id = s
              /\ \A i, j \in DOMAIN last'.list :
                    i < j => InstantOf(sessions[last'.list[i].id].last_active_at)
                               >= InstantOf(sessions[last'.list[j].id].last_active_at)]_vars

\* C20: for every request the middleware handles whose path starts with
\* /dashboard or /mcqs: without a cookie the answer is a redirect to /login
\* with the requested path as the redirect parameter; with a token that
\* does not verify (malformed, tampered with, expired) it is a redirect to
\* /login that deletes the cookie; the request is passed on if and only if
\* the token verifies; and the datastore is left as it was.
ProtectedPathsAreGated ==
    [][\A pathname \in {q \in Pathnames : \E path \in protectedPaths : startsWith(q, path)},
          cookie \in Cookies :
          middleware(pathname, cookie) =>
              /\ cookie = NoCookie =>
                    /\ last'.result = "redirect"
                    /\ last'.location = <<(<<"/login">>), pathname>>
                    /\ last'.cookieOut = Unchanged
              /\ cookie # NoCookie /\ ~verifyToken(cookie, now) =>
                    /\ last'.result = "redirect"
                    /\ last'.location[1] = <<"/login">>
                    /\ last'.cookieOut = Deleted
              /\ last'.result = "next" <=> verifyToken(cookie, now)
              /\ last'.result = "next" => last'.cookieOut = Unchanged
              /\ users' = users /\ sessions' = sessions]_vars

\* C20's case: a request to a protected path with a token that has expired
\* was redirected to /login and its cookie deleted.
ExpiredTokenRedirected ==
    /\ last.op = "middleware"
    /\ last.result = "redirect"
    /\ last.location[1] = <<"/login">>
    /\ last.cookieOut = Deleted
    /\ issued # {}
    /\ \A t \in issued : ~verifyToken(t, now)

\* The pathnames under a set of path prefixes.
Under(paths) == {q \in Pathnames : \E path \in paths : startsWith(q, path)}

OtherPathsPassOn ==
    [][\A pathname \in Pathnames \ (Under(protectedPaths) \cup Under(authPaths)),
          cookie \in Cookies :
          middleware(pathname, cookie) =>
              /\ last' = [PassOn EXCEPT !.path = pathname]
              /\ users' = users /\ sessions' = sessions]_vars

\* C22's case: a request for /about was passed on when every token issued
\* so far has expired.
OtherPathPassedOn ==
    /\ last.op = "middleware"
    /\ last.path = <<"/about">>
    /\ last.result = "next"
    /\ last.cookieOut = Unchanged
    /\ issued # {}
    /\ \A t \in issued : ~verifyToken(t, now)

RevokedSessionRedirected ==
    [][\A pathname \in Under(protectedPaths), cookie \in issued :
          /\ verifyToken(cookie, now)
          /\ Inactive(sessions, cookie.sessionId)
          /\ middleware(pathname, cookie)
          => /\ last'.result = "redirect"
             /\ last'.location[1] = <<"/login">>]_vars

\* What verifyToken returns of a token it accepts: the claims of the payload.
ClaimsOf(token) ==
    [sessionId |-> token.sessionId, userId |-> token.userId, email |-> token.email]

\* The tokens someone without the secret can make of a token: any claim or
\* expiry replaced, the signature kept, taken from another issued token, or
\* made up.
Altered(t) ==
    {[t EXCEPT !.sessionId = s, !.userId = u, !.exp = e, !.mac = m] :
        s \in SessionIds, u \in UserIds, e \in {t.exp, t.exp + 1},
        m \in {x.mac : x \in issued} \cup {<<"HS256">>}}

\* C25: token round trip.  For the claims of every session in the
\* datastore and every time of issue, the token createToken makes of them
\* verifies at every instant less than 7 days after its issue, and the
\* claims read from it are the claims given; it does not verify at any
\* instant more than 7 days after its issue; every token issued is such a
\* token; and no token that is not an issued one verifies, whichever claim,
\* expiry or signature was replaced.
TokenRoundTrip ==
    /\ \A s \in DOMAIN sessions, iat \in 0..now :
          LET c == [sessionId |-> s, userId |-> sessions[s].user_id,
                    email |-> users[sessions[s].user_id].email]
              token == createToken(c.sessionId, c.userId, c.email, iat)
          IN  /\ now < iat + TokenTTL => verifyToken(token, now) /\ ClaimsOf(token) = c
              /\ now > iat + TokenTTL => ~verifyToken(token, now)
    /\ \A t \in issued :
          /\ t = createToken(t.sessionId, t.userId, t.email, t.iat)
          /\ now < t.iat + TokenTTL => verifyToken(t, now)
          /\ now > t.iat + TokenTTL => ~verifyToken(t, now)
          /\ \A a \in Altered(t) \ issued : ~verifyToken(a, now)
    /\ ~verifyToken(Garbage, now)

\* C25's case: of two tokens issued, one is past its 7 days and no longer
\* verifies, and the other verifies.
OneTokenExpiredOneValid ==
    \E t1, t2 \in issued :
        /\ now > t1.iat + TokenTTL
        /\ ~verifyToken(t1, now)
        /\ verifyToken(t2, now)
        /\ ClaimsOf(t2).sessionId \in DOMAIN sessions

\* The rules of the specification's checkStrength, one by one.
TooShort(password) == Len(password) < 8
HasUpper(password) == \E i \in 1..Len(password) : password[i] \in UpperCase
HasLower(password) == \E i \in 1..Len(password) : password[i] \in LowerCase
HasDigit(password) == \E i \in 1..Len(password) : password[i] \in Digits

Occurrences(seq, x) == Cardinality({i \in 1..Len(seq) : seq[i] = x})

\* C26: validatePasswordStrength(password) is valid if and only if the
\* password has at least 8 characters, an uppercase letter, a lowercase
\* letter and a digit; its list of violations has one entry for each rule
\* that fails and none for a rule that holds ("abc": length, uppercase and
\* number; "Password1": valid); and a signup whose other fields are in order
\* is refused with 400 if and only if valid is false.
StrengthRules ==
    [][\A password \in StrengthPasswords :
          LET v == validatePasswordStrength(password)
          IN  /\ v.valid <=> /\ ~TooShort(password) /\ HasUpper(password)
                             /\ HasLower(password) /\ HasDigit(password)
              /\ Occurrences(v.errors, "length") = IF TooShort(password) THEN 1 ELSE 0
              /\ Occurrences(v.errors, "uppercase") = IF HasUpper(password) THEN 0 ELSE 1
              /\ Occurrences(v.errors, "lowercase") = IF HasLower(password) THEN 0 ELSE 1
              /\ Occurrences(v.errors, "number") = IF HasDigit(password) THEN 0 ELSE 1
              /\ Len(v.errors) = Cardinality({e \in {"length", "uppercase", "lowercase",
                                                     "number"} :
                                                Occurrences(v.errors, e) = 1})
              /\ \A p \in Handlers, email \in {EmA, EmAUpper, EmB} :
                    SignupPOST(p, email, password, <<"T">>, TRUE) =>
                        /\ ~v.valid => /\ last'.status = 400
                                       /\ req'[p].pc = "idle"
                        /\ ~v.valid /\ password # Empty =>
                              /\ last'.error = "Password does not meet requirements"
                              /\ last'.details = v.errors
                        /\ v.valid => last'.status # 400]_vars

\* C26's case: a signup with the password "abc" was refused with the
\* violations length, uppercase and number.
WeakPasswordRefused ==
    /\ last.op = "signup"
    /\ last.status = 400
    /\ last.details = <<"length", "uppercase", "number">>
    /\ validatePasswordStrength(PwWeak).errors = last.details
    /\ validatePasswordStrength(PwOne).valid

\* C27: when the datastore fails in a handler that has reached it (the
\* binding is unavailable or a statement throws), the handler answers 500
\* "Internal server error": in signup, login, logout-all, GET /me,
\* GET /sessions and DELETE /sessions, at each of their statements.
DatastoreFailureIs500 ==
    [][/\ \A p \in Handlers :
             /\ \A email \in InputEmails, password \in SignupPasswords,
                   fullName \in InputNames :
                   /\ signupCheck(email, password, fullName).status = 0
                   /\ SignupPOST(p, email, password, fullName, FALSE)
                   => last'.status = 500
             /\ \A email \in InputEmails \ {Empty}, password \in LoginPasswords \ {Empty} :
                   LoginPOST(p, email, password, FALSE) => last'.status = 500
             /\ \/ SignupInsert(p, FALSE) \/ SignupSession(p, FALSE)
                \/ LoginUpdate(p, FALSE) \/ LoginSession(p, FALSE)
                \/ SessionsDELETERevoke(p, FALSE) \/ MeUser(p, FALSE)
                \/ (req[p].op = "me" /\ ValidateWrite(p, FALSE))
                => last'.status = 500 /\ last'.error = "Internal server error"
       /\ \A cookie \in issued :
             verifyToken(cookie, now) =>
                /\ LogoutAllPOST(cookie, FALSE) \/ SessionsGET(cookie, FALSE)
                      => last'.status = 500
                /\ \A p \in Handlers :
                      /\ MeGET(p, cookie, FALSE) => last'.status = 500
                      /\ \A sessionId \in SessionIdInputs :
                            SessionsDELETE(p, cookie, sessionId, FALSE)
                            => last'.status = 500]_vars

\* C28: validateSession touches the session exactly when it succeeds.  Its
\* read changes no row; when it returns true, last_active_at of the session
\* is the current time and nothing else in that row and no other row has
\* changed; when it returns false for an id without a row or with an
\* inactive row it stops after the read; and whenever it returns false or
\* throws, no last_active_at has changed.
ValidateTouchesOnSuccess ==
    [][\A p \in Procs :
          /\ \A s \in SessionIdInputs, dbOk \in BOOLEAN :
                CallValidateSession(p, s, dbOk) =>
                    /\ sessions' = sessions
                    /\ dbOk /\ (s \notin DOMAIN sessions \/ Inactive(sessions, s))
                          => req'[p].pc = "idle" /\ last'.result = "false"
          /\ \A dbOk \in BOOLEAN :
                req[p].op = "validateSession" /\ ValidateWrite(p, dbOk) =>
                    /\ last'.result \in {"true", "false", "throw"}
                    /\ last'.result = "true" =>
                          /\ InstantOf(sessions'[req[p].sid].last_active_at) = now
                          /\ sessions' = [sessions EXCEPT ![req[p].sid].last_active_at =
                                              sessions'[req[p].sid].last_active_at]
                    /\ last'.result # "true" =>
                          \A s \in DOMAIN sessions :
                              sessions'[s].last_active_at = sessions[s].last_active_at
                    /\ users' = users]_vars

\* C28's case: validateSession returned true for a session created
\* earlier, whose last_active_at is now the current time, while another
\* session still has the last_active_at of its creation.
ValidatedSessionTouched ==
    /\ last.op = "validateSession"
    /\ last.result = "true"
    /\ sessions[last.sid].last_active_at = CurrentTimestamp(now)
    /\ InstantOf(sessions[last.sid].expires_at) = SessionTTL
    /\ now > 0
    /\ \E s \in DOMAIN sessions :
          s # last.sid /\ sessions[s].last_active_at = IsoString(now)

\* C29: listing is read-only.  GET /sessions, for every cookie and whether
\* or not the datastore answers, and the getUserSessions of DELETE
\* /sessions, change no session row (neither is_active nor last_active_at)
\* and no user row.
ListingIsReadOnly ==
    [][/\ last'.op = "sessions-get" =>
             \A cookie \in Cookies, dbOk \in BOOLEAN :
                SessionsGET(cookie, dbOk) => sessions' = sessions /\ users' = users
       /\ \A p \in Handlers :
             /\ req[p].pc = "idle"
             /\ last'.op = "sessions-delete" \/ req'[p].op = "sessions-delete"
             => \A cookie \in Cookies, sessionId \in SessionIdInputs \cup {""},
                   dbOk \in BOOLEAN :
                   SessionsDELETE(p, cookie, sessionId, dbOk)
                   => sessions' = sessions /\ users' = users]_vars

\* C29's case: GET /sessions listed two sessions, and every session still
\* has the last_active_at of its creation.
ListedWithoutTouch ==
    /\ last.op = "sessions-get"
    /\ last.status = 200
    /\ Len(last.list) = 2
    /\ \A s \in DOMAIN sessions :
          sessions[s].last_active_at[1] = "iso" /\ sessions[s].is_active = 1

\* C30: cleanupExpiredSessions sets is_active = 0 on exactly the sessions that
\* are active and whose expires_at is before the current time, and leaves
\* every other session row unchanged.
CleanupDeactivatesExactlyExpired ==
    [][(last'.op = "cleanupExpiredSessions" /\ last'.result = "0") =>
          \A s \in DOMAIN sessions :
             sessions'[s] =
                IF sessions[s].is_active = 1 /\ InstantOf(sessions[s].expires_at) < now
                THEN [sessions[s] EXCEPT !.is_active = 0]
                ELSE sessions[s]]_vars

\* The session rows of a user.
SessionsOf(ss, userId) == {s \in DOMAIN ss : ss[s].user_id = userId}

\* C31: signup is not transactional but self-healing.  A signup that stops
\* after the user insert and before the session insert leaves the user row
\* with no session row and nothing else: no session, no token, no cookie.
\* From a state where an active user has no session, a login with the correct
\* credentials passes its checks, its session insert creates an active
\* session of that user and it answers 200; and a signup with the email of
\* that user answers 409.
SignupStopHeals ==
    [][\A p \in Handlers :
          /\ (req[p].pc = "signup_session" /\ req'[p].pc = "idle") =>
                /\ last'.status = 500
                /\ req[p].uid \in DOMAIN users
                /\ SessionsOf(sessions, req[p].uid) = {}
                /\ users' = users /\ sessions' = sessions /\ issued' = issued
                /\ last'.cookieOut = Unchanged
          /\ (req[p].pc = "idle" /\ (req'[p].pc # "idle" \/ last' # NoResp)) =>
                \A u \in {v \in DOMAIN users :
                             users[v].is_active = 1 /\ SessionsOf(sessions, v) = {}} :
                   \A email \in {e \in InputEmails : toLowerCase(e) = users[u].email} :
                      /\ \A password \in {w \in LoginPasswords :
                                             verifyPassword(w, users[u].password_hash)} :
                            LoginPOST(p, email, password, TRUE) =>
                                req'[p].pc = "login_update" /\ req'[p].uid = u
                      /\ \A password \in SignupPasswords, fullName \in InputNames :
                            (signupCheck(email, password, fullName).status = 0
                             /\ SignupPOST(p, email, password, fullName, TRUE)) =>
                                /\ last'.status = 409
                                /\ UNCHANGED <<users, sessions, issued>>
          /\ (req[p].pc = "login_session" /\ req'[p].pc = "login_token") =>
                /\ req'[p].sid \notin DOMAIN sessions
                /\ Live(sessions', req'[p].sid, now)
                /\ sessions'[req'[p].sid].user_id = req[p].uid
          /\ (req[p].pc = "login_token" /\ req'[p].pc = "idle") =>
                /\ last'.status = 200
                /\ last'.cookieOut \in issued']_vars

\* C31's case: a login answered 200 for a user whose only session row is the
\* one this login created, the signup having stopped before its own.
HealedByLogin ==
    /\ last.op = "login"
    /\ last.status = 200
    /\ SessionsOf(sessions, last.uid) = {last.sid}
    /\ sessions[last.sid].is_active = 1

\* C32: concurrent validateSession calls on a live session are benign under
\* every interleaving of their SELECT and UPDATE steps.  Each call whose
\* statements the datastore answers returns true and writes the time of its
\* own UPDATE to last_active_at, leaving the session active and every other
\* row as it was; and a session row changes in no other way, so the final
\* last_active_at is the time written by the call that wrote last.
ConcurrentValidationsAreBenign ==
    [][/\ \A p \in Handlers :
             (/\ req[p].pc = "validate_write"
              /\ req'[p].pc = "idle"
              /\ Live(sessions, req[p].sid, now)
              /\ last'.result # "throw") =>
                 /\ last'.result = "true"
                 /\ last'.sid = req[p].sid
                 /\ sessions' = [sessions EXCEPT
                                    ![req[p].sid].last_active_at = CurrentTimestamp(now)]
                 /\ Live(sessions', req[p].sid, now)
       /\ \A s \in DOMAIN sessions :
             sessions'[s] # sessions[s] =>
                 /\ \E p \in Handlers :
                       req[p].pc = "validate_write" /\ req[p].sid = s /\ req'[p].pc = "idle"
                 /\ sessions'[s] = [sessions[s] EXCEPT
                                       !.last_active_at = CurrentTimestamp(now)]]_vars

\* C32's case: one call has written and returned true, some time after the
\* session was created, while the other call, which read the row before that
\* write, has its own write still to come.
ValidationOvertaken ==
    /\ last.op = "validateSession"
    /\ last.result = "true"
    /\ Live(sessions, last.sid, now)
    /\ sessions[last.sid].last_active_at = CurrentTimestamp(now)
    /\ now > InstantOf(sessions[last.sid].expires_at) - SessionTTL
    /\ \E q \in Handlers : req[q].pc = "validate_write" /\ req[q].sid = last.sid

\* The rules of the specification's checkStrength that a password breaks.
Violations(password) ==
    (IF TooShort(password) THEN {"length"} ELSE {})
    \cup (IF HasUpper(password) THEN {} ELSE {"uppercase"})
    \cup (IF HasLower(password) THEN {} ELSE {"lowercase"})
    \cup (IF HasDigit(password) THEN {} ELSE {"number"})

\* C33: signup validates before it writes.  A request with a missing field
\* is answered 400; else one with a malformed email is answered 400; else one
\* with a weak password is answered 400 with the list of the rules it breaks;
\* a request that passes the three checks is not answered 400.  Every signup
\* answered 400 or 409 leaves the users and sessions tables unchanged, issues
\* no token and sets no cookie.
SignupValidatesBeforeWriting ==
    [][/\ \A p \in Handlers, email \in InputEmails, password \in StrengthPasswords,
             fullName \in InputNames, dbOk \in BOOLEAN :
             SignupPOST(p, email, password, fullName, dbOk) =>
                LET missing == Empty \in {email, password, fullName}
                    malformed == ~emailRegexTest(email)
                    weak == Violations(password) # {}
                IN  /\ missing =>
                          /\ last'.status = 400
                          /\ last'.error = "Missing required fields"
                    /\ ~missing /\ malformed =>
                          /\ last'.status = 400
                          /\ last'.error = "Invalid email format"
                    /\ ~missing /\ ~malformed /\ weak =>
                          /\ last'.status = 400
                          /\ last'.error = "Password does not meet requirements"
                          /\ {last'.details[i] : i \in DOMAIN last'.details}
                                = Violations(password)
                          /\ Len(last'.details) = Cardinality(Violations(password))
                    /\ ~missing /\ ~malformed /\ ~weak => last'.status # 400
       /\ (last'.op = "signup" /\ last'.status \in {400, 409}) =>
             /\ UNCHANGED <<users, sessions, issued>>
             /\ last'.cookieOut = Unchanged]_vars

\* C33's case: a signup with a malformed email was refused while a user is
\* registered, and the answer carries no cookie.
MalformedEmailRefused ==
    /\ last.op = "signup"
    /\ last.status = 400
    /\ last.error = "Invalid email format"
    /\ last.cookieOut = Unchanged
    /\ users # <<>>
    /\ sessions # <<>>

VerifyFailuresAlike ==
    \A cookie \in Cookies \ {NoCookie} :
        /\ verifyToken(cookie, now) <=> verifyTokenError(cookie, now) = "none"
        /\ \A other \in Cookies \ {NoCookie} :
              (~verifyToken(cookie, now) /\ ~verifyToken(other, now)) =>
                  verifyTokenError(cookie, now) = verifyTokenError(other, now)
        /\ ~verifyToken(cookie, now) =>
              verifyTokenError(cookie, now) = "Invalid or expired token"

\* C35's case: a client holds a malformed token, a token whose signature
\* does not match and an expired token, besides one that verifies.
ThreeKindsOfFailure ==
    /\ jwtVerify(Garbage, now) = "JWSInvalid"
    /\ \E a, b, c \in Cookies :
          /\ jwtVerify(a, now) = "JWSSignatureVerificationFailed"
          /\ jwtVerify(b, now) = "JWTExpired"
          /\ verifyToken(c, now)
          /\ verifyTokenError(a, now) = verifyTokenError(b, now)

\* C36: a POST /login that does not succeed (400, 401 or 403) leaves the
\* datastore unchanged: no session row is created, no user row is written
\* (last_login_at included), no token is issued and no cookie is set; the
\* refusal is the first statement of the request, so nothing was written
\* before it either.
FailedLoginWritesNothing ==
    [][(last'.op = "login" /\ last'.status \in {400, 401, 403}) =>
          /\ UNCHANGED <<users, sessions, issued>>
          /\ last'.cookieOut = Unchanged
          /\ \E p \in Handlers : req[p].pc = "idle" /\ req' = [req EXCEPT ![p] = IdleReq]]_vars

\* C36's case: a wrong password for a registered account that has a session
\* was refused, and the account's last_login_at is still unset.
FailedLoginLeftNoTrace ==
    /\ last.op = "login"
    /\ last.status = 401
    /\ last.uid \in DOMAIN users
    /\ users[last.uid].last_login_at = Null
    /\ SessionsOf(sessions, last.uid) # {}
    /\ last.cookieOut = Unchanged

\* C37: no session row is written after it has been deactivated.  In every
\* interleaving of validateSession with revokeSession, revokeAllUserSessions
\* or cleanupExpiredSessions, last_active_at of a row whose is_active is 0 is
\* never changed, and a validateSession call that returns true leaves a row
\* that is active when it returns.
NoWriteAfterDeactivation ==
    [][/\ \A s \in DOMAIN sessions :
             sessions[s].is_active = 0 =>
                 sessions'[s].last_active_at = sessions[s].last_active_at
       /\ (last'.op = "validateSession" /\ last'.result = "true") =>
             sessions'[last'.sid].is_active = 1]_vars

\* The active sessions of a user.
ActiveOf(ss, userId) == {s \in SessionsOf(ss, userId) : ss[s].is_active = 1}

\* C38: logout-all against a concurrent login.  When POST /logout-all
\* answers 200, every session row of the user that exists at its revoke
\* statement is inactive, and requests in flight are not affected; a login
\* of that user that is past its password check inserts its session
\* afterwards, and that session is active.  A user without an active session
\* gets one only from the session insert of a login or signup of that user
\* in flight, so after logout-all the user has no active session unless
\* such a request was in flight or is started later.
LogoutAllAgainstLogin ==
    [][/\ (last'.op = "logout-all" /\ last'.status = 200) =>
             /\ \A s \in DOMAIN sessions :
                   sessions'[s] = IF sessions[s].user_id = last'.uid
                                  THEN [sessions[s] EXCEPT !.is_active = 0]
                                  ELSE sessions[s]
             /\ DOMAIN sessions' = DOMAIN sessions
             /\ ActiveOf(sessions', last'.uid) = {}
             /\ req' = req
       /\ \A p \in Handlers :
             (req[p].pc = "login_session" /\ req'[p].pc = "login_token") =>
                 /\ req'[p].sid \notin DOMAIN sessions
                 /\ ActiveOf(sessions', req[p].uid)
                       = ActiveOf(sessions, req[p].uid) \cup {req'[p].sid}
       /\ \A u \in DOMAIN users :
             (ActiveOf(sessions, u) = {} /\ ActiveOf(sessions', u) # {}) =>
                 \E p \in Handlers :
                    /\ req[p].uid = u
                    /\ req[p].pc \in {"login_session", "signup_session"}
                    /\ req'[p].pc \in {"login_token", "signup_token"}]_vars

\* C38's case: logout-all has returned for a user who has a login in flight,
\* past its password check and with its session insert still to come.
LogoutAllDuringLogin ==
    /\ last.op = "logout-all"
    /\ last.status = 200
    /\ SessionsOf(sessions, last.uid) # {}
    /\ ActiveOf(sessions, last.uid) = {}
    /\ \E p \in Handlers :
          /\ req[p].op = "login"
          /\ req[p].pc \in {"login_update", "login_session"}
          /\ req[p].uid = last.uid

\* What C39 says of the tokens issued so far.
Bound(token) ==
    /\ token.sessionId \in DOMAIN sessions
    /\ sessions[token.sessionId].user_id = token.userId
    /\ token.userId \in DOMAIN users

\* C39: token-session binding.  Every token issued by signup or login
\* carries a sessionId for which a session row exists, whose user_id is the
\* token's userId and names an existing user row, in every reachable state;
\* the row exists when the token is issued, and no step deletes a session
\* row or a user row or changes a session's user_id.
TokenSessionBinding ==
    /\ [](\A token \in issued : Bound(token))
    /\ [][/\ \A s \in DOMAIN sessions :
                s \in DOMAIN sessions' /\ sessions'[s].user_id = sessions[s].user_id
          /\ DOMAIN users \subseteq DOMAIN users'
          /\ \A token \in issued' \ issued :
                /\ token.sessionId \in DOMAIN sessions
                /\ sessions[token.sessionId].user_id = token.userId
                /\ last'.op \in {"signup", "login"}
                /\ last'.cookieOut = token]_vars

\* C39's case: a login has issued a token for its session while an earlier
\* token of the same user names a session that has been revoked since.
TokensBoundAfterRevoke ==
    /\ last.op = "login"
    /\ last.status = 200
    /\ last.cookieOut \in issued
    /\ Bound(last.cookieOut)
    /\ \E token \in issued :
          /\ token.sessionId # last.sid
          /\ token.userId = last.uid
          /\ Bound(token)
          /\ sessions[token.sessionId].is_active = 0

=============================================================================
